---- MODULE Spec2Model ----
(***************************************************************************)
(* Model of the aggregation engine of sandbox.py (class Quantity).         *)
(* A Quantity is a record `q`; every method is an operator from the        *)
(* record (and its arguments) to the record after the call.  The matrix is *)
(* matrix[case][x-offset+1][y-offset+1] (Python offsets are 0-based,       *)
(* sequences here are 1-based); offset 0 of each axis is the total column. *)
(* Entries are integers or NaN.                                            *)
(***************************************************************************)
EXTENDS Integers, Sequences, FiniteSets, TLC

VARIABLES d, q, op, pre

vars == <<d, q, op, pre>>

----------------------------------------------------------------------------
(* Bounds and input domains *)

\* number of explicit weight() calls a behaviour may make
MaxWeightCalls == 2

\* number of exclude() / limit() calls a behaviour may make
MaxEdits == 1

\* calls of group() in a behaviour
MaxGroups == 1
\* calls of filter(inplace=False) on one Quantity
MaxFilters == 1
\* calls of rescale on one Quantity
MaxRescales == 2

\* the largest number of cases, and the largest value, of the data the
\* percentiles are taken of
MaxCases == 5

\* the largest number of Quantity constructions on one Cache
MaxConstructions == 2

\* the cases of the datasets a Test is built on
MaxTestCases == 2

\* calls of set_params on one Test
MaxSetParams == 1

CaseIds == {1, 2}
XCodes == {1, 2, 3}
YCodes == {1, 2}
Weights == {1, 2}

----------------------------------------------------------------------------
(* numpy arithmetic on entries *)

\* np.NaN
NaN == -1

None == << -1 >>
NoResult == << >>

\* a * b with NaN propagation
Mul(a, b) == IF a = NaN \/ b = NaN THEN NaN ELSE a * b

\* a / a : 0/0 and NaN/NaN are NaN, v/v is 1
SelfDiv(a) == IF a = NaN \/ a = 0 THEN NaN ELSE 1

RECURSIVE NanSum(_)
\* np.nansum of a vector: NaN entries count as 0
NanSum(s) == IF s = << >> THEN 0
             ELSE (IF Head(s) = NaN THEN 0 ELSE Head(s)) + NanSum(Tail(s))

RECURSIVE NpSum(_)
\* np.sum of a vector: any NaN makes the sum NaN
NpSum(s) == IF s = << >> THEN 0
            ELSE LET r == NpSum(Tail(s))
                 IN IF Head(s) = NaN \/ r = NaN THEN NaN ELSE Head(s) + r

\* the entries greater than 0 (NaN > 0 is False)
Pos(v) == v # NaN /\ v > 0

RECURSIVE SeqOfSet(_)
\* ascending list of a set of integers
SeqOfSet(S) == IF S = {} THEN << >>
               ELSE LET mn == CHOOSE a \in S : \A b \in S : a <= b
                    IN <<mn>> \o SeqOfSet(S \ {mn})

Range(s) == {s[k] : k \in 1..Len(s)}

\* list.index(v): 0-based position of the first occurrence
IndexOf(s, v) == (CHOOSE k \in 1..Len(s) : s[k] = v /\ \A l \in 1..(k-1) : s[l] # v) - 1

\* [f(e) for e in s if e in keep]
SelectIn(s, keep) == SelectSeq(s, LAMBDA e : e \in keep)

SelectNotIn(s, drop) == SelectSeq(s, LAMBDA e : e \notin drop)

----------------------------------------------------------------------------
(* Matrix shape helpers *)

NCases(m) == Len(m)
XLen(m) == IF m = << >> THEN 0 ELSE Len(m[1])
YLen(m) == IF m = << >> \/ m[1] = << >> THEN 0 ELSE Len(m[1][1])

\* matrix[:, cols] : fancy indexing of axis 1 with a list of offsets
TakeX(m, cols) == [c \in 1..Len(m) |-> [k \in 1..Len(cols) |-> m[c][cols[k] + 1]]]

\* matrix.swapaxes(1, 2)
SwapAxes(m, xl, yl) == [c \in 1..Len(m) |-> [j \in 1..yl |-> [i \in 1..xl |-> m[c][i][j]]]]

\* np.concatenate([a, b], axis=1) of two 3D blocks over the same cases
ConcatX(a, b) == [c \in 1..Len(a) |-> a[c] \o b[c]]

\* np.nansum(matrix, axis=0)
SumCases(m, xl, yl) ==
    [i \in 1..xl |-> [j \in 1..yl |-> NanSum([c \in 1..Len(m) |-> m[c][i][j]])]]

----------------------------------------------------------------------------
(* Quantity._sort_indexer_as_codes / _get_x_indexers / _get_y_indexers *)

RECURSIVE SortPairs(_)
\* sorted(pairs, key=lambda l: l[1]) : stable sort by the second component
SortPairs(ps) ==
    IF ps = << >> THEN << >>
    ELSE LET k == CHOOSE a \in 1..Len(ps) :
                     /\ \A b \in 1..Len(ps) : ps[a][2] <= ps[b][2]
                     /\ \A b \in 1..(a-1) : ps[b][2] # ps[a][2]
             rest == [l \in 1..(Len(ps)-1) |-> IF l < k THEN ps[l] ELSE ps[l+1]]
         IN <<ps[k]>> \o SortPairs(rest)

Min2(a, b) == IF a < b THEN a ELSE b

\* zip(indexer, codes), sorted by code, first components
sort_indexer_as_codes(indexer, codes) ==
    LET n == Min2(Len(indexer), Len(codes))
        zipped == [k \in 1..n |-> <<indexer[k], codes[k]>>]
        mapping == SortPairs(zipped)
    IN [k \in 1..n |-> mapping[k][1]]

get_x_indexers(self) ==
    sort_indexer_as_codes([k \in 1..Len(self.xdef) |-> k], self.xdef)

get_y_indexers(self) ==
    IF self.ydef # None
    THEN sort_indexer_as_codes([k \in 1..Len(self.ydef) |-> k], self.ydef)
    ELSE <<1>>

----------------------------------------------------------------------------
(* Construction: Quantity.__init__, _get_matrix, _dummyfy, _clean,         *)
(* _squeeze_dummies                                                        *)

\* one row of the dummy encoding of a variable: 1 where the case holds the code
dummyfy(answers, codes) == [k \in 1..Len(codes) |-> IF codes[k] \in answers THEN 1 ELSE 0]

\* the weight column d[[w]]
get_wv(data, w, c) == IF w = "@1" THEN 1 ELSE data.cases[c].w

\* the 2D row (total, xm, total, ym, wv) of a case, ym absent for the total y '@'
Row2D(data, y, w, c) ==
    <<1>> \o dummyfy(data.cases[c].x, data.xcodes)
          \o <<1>>
          \o (IF y = "@" THEN << >> ELSE dummyfy(data.cases[c].y, data.ycodes))
          \o <<get_wv(data, w, c)>>

\* _clean: the cases kept, those with an answer on x and on y
clean_mask(data, y, w, base_all, c) ==
    LET row == Row2D(data, y, w, c)
        n == Len(data.xcodes)
        xmask == NanSum(SubSeq(row, 2, n + 1)) > 0
        ymask == IF base_all THEN NanSum(SubSeq(row, n + 2, Len(row) - 1)) > 0
                 ELSE NanSum(SubSeq(row, n + 3, Len(row) - 1)) > 0
    IN IF y # "@" THEN xmask /\ ymask ELSE xmask

\* the retained cases, in data order
clean(data, y, w, base_all) ==
    SelectSeq(SeqOfSet(DOMAIN data.cases),
              LAMBDA c : clean_mask(data, y, w, base_all, c))

\* mutant: the x section is not multiplied by the y indicators
squeeze_dummies_noy(data, y, w, kept) ==
    LET n == Len(data.xcodes)
    IN [k \in 1..Len(kept) |->
          LET row == Row2D(data, y, w, kept[k])
              xs == SubSeq(row, 1, n + 1)
              ys == SubSeq(row, n + 2, Len(row) - 1)
          IN [i \in 1..Len(xs) |-> [j \in 1..Len(ys) |-> xs[i]]]]

\* _squeeze_dummies: matrix[c][i][j] = x[c][i] * y[c][j]
squeeze_dummies(data, y, w, kept) ==
    LET n == Len(data.xcodes)
    IN [k \in 1..Len(kept) |->
          LET row == Row2D(data, y, w, kept[k])
              xs == SubSeq(row, 1, n + 1)
              ys == SubSeq(row, n + 2, Len(row) - 1)
          IN [i \in 1..Len(xs) |-> [j \in 1..Len(ys) |-> xs[i] * ys[j]]]]

RECURSIVE SumAll(_)
SumAll(m) == IF m = << >> THEN 0
             ELSE NanSum([i \in 1..Len(m[1]) |-> NanSum(m[1][i])]) + SumAll(Tail(m))

\* the Quantity after __init__ (no metadata-declared missings)
Quantity(data, y, w, base_all) ==
    LET kept == clean(data, y, w, base_all)
        mat == squeeze_dummies(data, y, w, kept)
        base == [x |-> "x", y |-> y, w |-> w, base_all |-> base_all,
                 xdef |-> data.xcodes,
                 ydef |-> IF y = "@" THEN None ELSE data.ycodes]
    IN [x |-> "x", y |-> y, w |-> w, base_all |-> base_all,
        type |-> "simple",
        is_weighted |-> FALSE,
        xdef |-> base.xdef, ydef |-> base.ydef,
        matrix |-> mat,
        wv |-> [k \in 1..Len(kept) |-> get_wv(data, w, kept[k])],
        idx_map |-> kept,
        _x_indexers |-> get_x_indexers(base),
        _y_indexers |-> get_y_indexers(base),
        is_empty |-> (SumAll(mat) = 0),
        switched |-> FALSE,
        factorized |-> "none",
        result |-> NoResult,
        current_agg |-> "none",
        cbase |-> NoResult, rbase |-> NoResult,
        comb_x |-> None, comb_y |-> None,
        miss_x |-> None, miss_y |-> None,
        logical_conditions |-> << >>,
        cache |-> "link.cache",
        calc_x |-> None, calc_y |-> None,
        _has_x_margin |-> FALSE, _has_y_margin |-> FALSE]

\* An array mask: its items are the data columns x and y, both answered
\* (single-coded) with the response codes data.xcodes.
ItemAnswers(data, c) == <<data.cases[c].x, data.cases[c].y>>

\* pd.get_dummies(d[item]).reindex(columns=a_res): a code that no case gives
\* for the item has no dummy column and is NaN after the reindex
array_dummy(data, c, i, code) ==
    IF \A cc \in DOMAIN data.cases : code \notin ItemAnswers(data, cc)[i] THEN NaN
    ELSE IF code \in ItemAnswers(data, c)[i] THEN 1 ELSE 0

\* _clean for an array: the cases with an answer on some item
array_clean(data) ==
    SelectSeq(SeqOfSet(DOMAIN data.cases),
              LAMBDA c : NanSum([i \in 1..2 |->
                            NanSum([k \in 1..Len(data.xcodes) |->
                                      array_dummy(data, c, i, data.xcodes[k])])]) > 0)

\* _squeeze_dummies for an array: per item the 0/1 total of the case, then
\* one section per response code
array_squeeze(data, kept) ==
    [r \in 1..Len(kept) |->
        <<[i \in 1..2 |->
              SelfDiv(NanSum([k \in 1..Len(data.xcodes) |->
                                array_dummy(data, kept[r], i, data.xcodes[k])]))]>>
        \o [k \in 1..Len(data.xcodes) |->
              [i \in 1..2 |-> array_dummy(data, kept[r], i, data.xcodes[k])]]]

HasNaN(m) == \E c \in 1..Len(m) : \E i \in 1..Len(m[c]) : NaN \in Range(m[c][i])

\* the Quantity after __init__ on an array mask (y is '@')
ArrayQuantity(data, w) ==
    [x |-> "x", y |-> "@", w |-> w, base_all |-> FALSE,
     type |-> "array",
     is_weighted |-> FALSE,
     xdef |-> data.xcodes, ydef |-> <<1, 2>>,
     matrix |-> array_squeeze(data, array_clean(data)),
     wv |-> [k \in 1..Len(array_clean(data)) |-> get_wv(data, w, array_clean(data)[k])],
     idx_map |-> array_clean(data),
     _x_indexers |-> get_x_indexers([xdef |-> data.xcodes]),
     _y_indexers |-> << >>,
     is_empty |-> (~HasNaN(array_squeeze(data, array_clean(data)))
                     /\ SumAll(array_squeeze(data, array_clean(data))) = 0),
     switched |-> FALSE,
     factorized |-> "none",
     result |-> NoResult,
     current_agg |-> "none",
     cbase |-> NoResult, rbase |-> NoResult,
     comb_x |-> None, comb_y |-> None,
     miss_x |-> None, miss_y |-> None,
     logical_conditions |-> << >>,
     cache |-> "link.cache",
     calc_x |-> None, calc_y |-> None,
     _has_x_margin |-> FALSE, _has_y_margin |-> FALSE]

----------------------------------------------------------------------------
(* Quantity.weight / Quantity.unweight *)

\* the entries of one case after matrix[...] *= wv, on all entries or on [1:, 1:]
weight_case(mc, wgt, cells_only) ==
    [i \in 1..Len(mc) |-> [j \in 1..Len(mc[i]) |->
        IF cells_only /\ (i = 1 \/ j = 1) THEN mc[i][j] ELSE Mul(mc[i][j], wgt)]]

weight(self) ==
    [self EXCEPT
        !.matrix = [c \in 1..Len(self.matrix) |->
                       weight_case(self.matrix[c], self.wv[c], self.is_weighted)],
        !.is_weighted = TRUE]

\* mutant: the weighted entries are left as they are
unweight_keep(self) == [self EXCEPT !.is_weighted = TRUE]

\* matrix[:, 1:, 1:] /= matrix[:, 1:, 1:]
unweight(self) ==
    [self EXCEPT
        !.matrix = [c \in 1..Len(self.matrix) |->
                     [i \in 1..Len(self.matrix[c]) |-> [j \in 1..Len(self.matrix[c][i]) |->
                        IF i = 1 \/ j = 1 THEN self.matrix[c][i][j]
                        ELSE SelfDiv(self.matrix[c][i][j])]]],
        !.is_weighted = TRUE]

----------------------------------------------------------------------------
(* Quantity._switch_axes *)

XDim(self) == IF self.xdef = None THEN 1 ELSE Len(self.xdef) + 1
YDim(self) == IF self.ydef = None THEN 1 ELSE Len(self.ydef) + 1

\* mutant: the swap of miss_x / miss_y done as two assignments in a row
switch_axes_onemiss(self) ==
    [self EXCEPT
        !.switched = ~self.switched,
        !.matrix = SwapAxes(self.matrix, XDim(self), YDim(self)),
        !.xdef = self.ydef, !.ydef = self.xdef,
        !._x_indexers = self._y_indexers, !._y_indexers = self._x_indexers,
        !.comb_x = self.comb_y, !.comb_y = self.comb_x,
        !.miss_x = self.miss_y, !.miss_y = self.miss_y]

switch_axes(self) ==
    [self EXCEPT
        !.switched = ~self.switched,
        !.matrix = SwapAxes(self.matrix, XDim(self), YDim(self)),
        !.xdef = self.ydef, !.ydef = self.xdef,
        !._x_indexers = self._y_indexers, !._y_indexers = self._x_indexers,
        !.comb_x = self.comb_y, !.comb_y = self.comb_x,
        !.miss_x = self.miss_y, !.miss_y = self.miss_x]

----------------------------------------------------------------------------
(* Quantity._res_is_stat / _res_is_margin / _organize_margins *)

res_is_stat(self) ==
    self.current_agg \in {"mean", "min", "max", "varcoeff", "sem", "stddev",
                          "var", "median", "upper_q", "lower_q"}

res_is_margin(self) ==
    self.current_agg \in {"tbase", "cbase", "rbase", "x_sum", "y_sum"}

\* result[1:, :]
DropRow(r) == IF r = << >> THEN r ELSE Tail(r)
\* result[:, 1:]
DropCol(r) == [i \in 1..Len(r) |-> IF r[i] = << >> THEN r[i] ELSE Tail(r[i])]

SetMargins(self, res, hx, hy) ==
    [self EXCEPT !.result = res, !._has_x_margin = hx, !._has_y_margin = hy]

organize_margins_stat(self, margin) ==
    IF ~res_is_stat(self) THEN self
    ELSE IF self.y = "@" \/ self.x = "@" THEN SetMargins(self, self.result, FALSE, FALSE)
    ELSE IF self.factorized = "x"
         THEN (IF ~margin THEN SetMargins(self, DropCol(self.result), FALSE, FALSE)
               ELSE SetMargins(self, self.result, FALSE, TRUE))
         ELSE (IF ~margin THEN SetMargins(self, DropRow(self.result), FALSE, FALSE)
               ELSE SetMargins(self, self.result, TRUE, FALSE))

organize_margins(self0, margin) ==
    LET self == organize_margins_stat(self0, margin)
    IN IF res_is_margin(self)
       THEN IF self.y = "@" \/ self.x = "@"
            THEN IF self.current_agg \in {"cbase", "x_sum"}
                 THEN SetMargins(self, self.result, FALSE, FALSE)
                 ELSE IF self.current_agg \in {"rbase", "y_sum"}
                 THEN (IF ~margin THEN SetMargins(self, DropRow(self.result), FALSE, FALSE)
                       ELSE SetMargins(self, self.result, TRUE, FALSE))
                 ELSE self
            ELSE IF self.current_agg \in {"cbase", "x_sum"}
                 THEN (IF ~margin THEN SetMargins(self, DropCol(self.result), FALSE, FALSE)
                       ELSE SetMargins(self, self.result, FALSE, TRUE))
                 ELSE IF self.current_agg \in {"rbase", "y_sum"}
                 THEN (IF ~margin THEN SetMargins(self, DropRow(self.result), FALSE, FALSE)
                       ELSE SetMargins(self, self.result, TRUE, FALSE))
                 ELSE self
       ELSE IF self.current_agg \in {"freq", "summary", "calc"}
       THEN IF self.y = "@" \/ self.x = "@"
            THEN (IF ~margin THEN SetMargins(self, DropRow(self.result), FALSE, FALSE)
                  ELSE SetMargins(self, self.result, TRUE, FALSE))
            ELSE (IF ~margin THEN SetMargins(self, DropCol(DropRow(self.result)), FALSE, FALSE)
                  ELSE SetMargins(self, self.result, TRUE, TRUE))
       ELSE self

----------------------------------------------------------------------------
(* Quantity.count (as_df=False) *)

count_agg(axis, raw_sum) ==
    IF axis = "None" THEN "freq"
    ELSE IF axis = "x" THEN (IF ~raw_sum THEN "cbase" ELSE "x_sum")
    ELSE (IF ~raw_sum THEN "rbase" ELSE "y_sum")

\* counts[[0], :]
FirstRow(r) == <<r[1]>>
\* counts[:, [0]]
FirstCol(r) == [i \in 1..Len(r) |-> <<r[i][1]>>]

count_result(self, counts, axis, raw_sum) ==
    IF axis = "None" THEN counts
    ELSE IF axis = "x"
    THEN (IF ~raw_sum THEN FirstRow(counts)
          ELSE <<[j \in 1..Len(counts[1]) |->
                    NanSum([i \in 1..(Len(counts) - 1) |-> counts[i + 1][j]])]>>)
    ELSE (IF ~raw_sum THEN FirstCol(counts)
          ELSE IF self.x = "@" \/ self.y = "@" THEN FirstCol(counts)
          ELSE [i \in 1..Len(counts) |-> <<NanSum(Tail(counts[i]))>>])

\* count() for a call that does not raise (axis is None implies not raw_sum)
count(self0, axis, raw_sum, margin) ==
    LET s1 == [self0 EXCEPT !.current_agg = count_agg(axis, raw_sum)]
        s2 == IF s1.w # "@1" THEN weight(s1) ELSE s1
        counts == SumCases(s2.matrix, XDim(s2), YDim(s2))
        s3 == [s2 EXCEPT !.cbase = FirstRow(counts),
                         !.rbase = FirstCol(counts),
                         !.result = count_result(s2, counts, axis, raw_sum)]
        s4 == organize_margins(s3, margin)
    IN unweight(s4)

----------------------------------------------------------------------------
(* Quantity._attach_margins, _organize_expr_def, calc *)

\* values.T
Transposed(r) == [j \in 1..Len(r[1]) |-> [i \in 1..Len(r) |-> r[i][j]]]

\* np.concatenate([self.rbase[1:, :], values], 1)
WithRbase(self, values) ==
    [i \in 1..Len(values) |-> <<self.rbase[i + 1][1]>> \o values[i]]

\* _attach_margins: self with the margins forced back into result, and the
\* returned flag
attach_margins(self) ==
    IF res_is_stat(self) THEN [self |-> self, margins |-> FALSE]
    ELSE [self |-> [self EXCEPT !.result =
                      (IF ~self._has_x_margin THEN self.cbase ELSE << >>)
                      \o (IF ~self._has_y_margin /\ self.y # "@"
                          THEN WithRbase(self, self.result) ELSE self.result)],
          margins |-> self._has_x_margin]

\* the name that labels the calculation (the key of the expression dict)
CalcName == 900

\* the codes the expression may refer to on the axis
calc_index_codes(self, axis) ==
    IF res_is_stat(self) THEN << >>
    ELSE IF axis = "x" THEN (IF self.comb_x = None THEN self.xdef ELSE self.comb_x)
    ELSE (IF self.comb_y = None THEN self.ydef ELSE self.comb_y)

\* _organize_expr_def: an operand is a code of the axis or constant(num), a
\* list; val1 and val2 become offsets into the result or the scalar
organize_expr_def(expr, idx_c) ==
    IF expr.val1.list
    THEN IF expr.val2.list \/ expr.val2.v \notin Range(idx_c)
         THEN [raised |-> "IndexError", val1 |-> 0, val2 |-> 0, type |-> "none"]
         ELSE [raised |-> "none", val1 |-> expr.val1.v,
               val2 |-> IndexOf(idx_c, expr.val2.v) + 1, type |-> "scalar_1"]
    ELSE IF expr.val2.list
    THEN IF expr.val1.v \notin Range(idx_c)
         THEN [raised |-> "IndexError", val1 |-> 0, val2 |-> 0, type |-> "none"]
         ELSE [raised |-> "none", val1 |-> IndexOf(idx_c, expr.val1.v) + 1,
               val2 |-> expr.val2.v, type |-> "scalar_2"]
    ELSE IF expr.val1.v \notin Range(idx_c) \/ expr.val2.v \notin Range(idx_c)
         THEN [raised |-> "IndexError", val1 |-> 0, val2 |-> 0, type |-> "none"]
         ELSE [raised |-> "none", val1 |-> IndexOf(idx_c, expr.val1.v) + 1,
               val2 |-> IndexOf(idx_c, expr.val2.v) + 1, type |-> "vectors"]

\* operator.add / operator.mul on two cells
calc_op(o, a, b) ==
    IF a = NaN \/ b = NaN THEN NaN
    ELSE IF o = "add" THEN a + b ELSE a * b

\* op(val1, val2) on values[[v1], :] and values[[v2], :] (or a scalar)
calc_res(values, e, o) ==
    <<[j \in 1..Len(values[1]) |->
         calc_op(o,
                 IF e.type = "scalar_1" THEN e.val1 ELSE values[e.val1 + 1][j],
                 IF e.type = "scalar_2" THEN e.val2 ELSE values[e.val2 + 1][j])]>>

\* np.concatenate([a, b], ap_axis) of a and the derived row (axis 'x':
\* ap_axis 0) or column (axis 'y': ap_axis 1); the other dimension of the
\* two arrays has to agree
calc_concat(a, res, axis) ==
    IF axis = "x"
    THEN (IF Len(a[1]) = Len(res[1])
          THEN [raised |-> "none", result |-> a \o res]
          ELSE [raised |-> "ValueError", result |-> a])
    ELSE (IF Len(a) = Len(res[1])
          THEN [raised |-> "none", result |-> [i \in 1..Len(a) |-> Append(a[i], res[1][i])]]
          ELSE [raised |-> "ValueError", result |-> a])

\* the end of calc once result is set: margins, current_agg, _organize_margins
calc_finish(self, has_margin) ==
    organize_margins([self EXCEPT !.cbase = FirstRow(self.result),
                                  !.rbase = IF self.type \in {"simple", "nested"}
                                            THEN FirstCol(self.result) ELSE NoResult,
                                  !.current_agg = "calc"],
                     has_margin)

\* the derived row: op on the rows of values, which is result (axis 'x') or
\* its transpose (axis 'y')
calc_row(s, expr, axis, e) ==
    calc_res(IF axis = "x" THEN s.result ELSE Transposed(s.result), e, expr.op)

\* calc from `if result_only:` on; s is self with the margins attached and
\* calc_x / calc_y set, c the concatenation
calc_store(s, axis, result_only, has_margin, idx_c, c) ==
    IF c.raised # "none" THEN [self |-> s, raised |-> c.raised]
    ELSE IF result_only
    THEN [self |-> calc_finish([s EXCEPT !.result = c.result], has_margin),
          raised |-> "none"]
    ELSE [self |-> calc_finish(
                     [s EXCEPT !.result = c.result,
                               !.calc_x = IF axis = "x" THEN Append(idx_c, CalcName) ELSE @,
                               !.calc_y = IF axis = "x" THEN @ ELSE Append(idx_c, CalcName)],
                     has_margin),
          raised |-> "none"]

\* calc from _organize_expr_def on
calc_body(s, expr, axis, result_only, has_margin, e, idx_c) ==
    IF e.raised # "none" THEN [self |-> s, raised |-> e.raised]
    ELSE calc_store(s, axis, result_only, has_margin, idx_c,
                    calc_concat(IF result_only THEN FirstRow(s.result) ELSE s.result,
                                calc_row(s, expr, axis, e), axis))

\* mutant: the test of the axis parameter comes first
calc_refused_axis_first(self, axis) ==
    IF axis \notin {"x", "y"} THEN "ValueError"
    ELSE IF self.result = NoResult THEN "ValueError"
    ELSE IF self.current_agg \in {"cbase", "rbase", "summary", "x_sum", "y_sum"}
    THEN "NotImplementedError"
    ELSE "none"

\* the error of the three tests calc opens with, "none" when they all pass
calc_refused(self, axis) ==
    IF self.result = NoResult THEN "ValueError"
    ELSE IF self.current_agg \in {"cbase", "rbase", "summary", "x_sum", "y_sum"}
    THEN "NotImplementedError"
    ELSE IF axis \notin {"x", "y"} THEN "ValueError"
    ELSE "none"

\* calc(expression, axis, result_only) on a result kept as array: self after
\* the call and the error raised
calc(self, expr, axis, result_only) ==
    IF calc_refused(self, axis) # "none"
    THEN [self |-> self, raised |-> calc_refused(self, axis)]
    ELSE calc_body([attach_margins(self).self EXCEPT
                       !.calc_x = IF axis = "x" THEN <<CalcName>> ELSE @,
                       !.calc_y = IF axis = "x" THEN @ ELSE <<CalcName>>],
                   expr, axis, result_only, attach_margins(self).margins,
                   organize_expr_def(expr, calc_index_codes(self, axis)),
                   calc_index_codes(self, axis))

----------------------------------------------------------------------------
(* Quantity._copy, _get_drop_idx, _missingfy, exclude, limit *)

\* _copy: the matrix is copied, the other attributes are immutable values here
\* (the list logical_conditions stays shared with self: see filter_call)
copy(self) == self

\* _reset: every attribute is set to None but the ones of the keep-list
\* ('_uses_meta', 'base_all', '_dataidx', 'meta', '_cache', 'd', 'idx_map');
\* 'switched' is set to False.  The attribute cache is not in the keep-list.
reset(self) ==
    [self EXCEPT !.x = "None", !.y = "None", !.w = "None", !.type = "None",
                 !.is_weighted = "None", !.xdef = None, !.ydef = None,
                 !.matrix = None, !.wv = None,
                 !._x_indexers = None, !._y_indexers = None,
                 !.is_empty = "None", !.switched = FALSE, !.factorized = "none",
                 !.result = NoResult, !.current_agg = "none",
                 !.cbase = NoResult, !.rbase = NoResult,
                 !.comb_x = None, !.comb_y = None, !.miss_x = None, !.miss_y = None,
                 !.logical_conditions = None, !.cache = "None",
                 !.calc_x = None, !.calc_y = None,
                 !._has_x_margin = "None", !._has_y_margin = "None"]

\* _get_matrix on a Quantity whose x, y and w are set: its first statement
\* calls self.cache(), a TypeError when cache is None; otherwise the tensor
\* and the axis definitions are built as in __init__
get_matrix(self, data) ==
    IF self.cache = "None" THEN [self |-> self, raised |-> "TypeError"]
    ELSE [self |-> [self EXCEPT
                      !.matrix = Quantity(data, self.y, self.w, self.base_all).matrix,
                      !.xdef = Quantity(data, self.y, self.w, self.base_all).xdef,
                      !.ydef = Quantity(data, self.y, self.w, self.base_all).ydef,
                      !.wv = Quantity(data, self.y, self.w, self.base_all).wv],
          raised |-> "none"]

\* the object swapped after _reset and the assignments of x, y, f, w and type
swap_setup(self, swapped, var, axis) ==
    [reset(swapped) EXCEPT !.x = IF axis = "x" THEN var ELSE self.x,
                           !.y = IF axis = "x" THEN self.y ELSE var,
                           !.w = self.w,
                           !.type = "simple"]

\* swap(var, axis, inplace): self after the call, the object returned (None
\* when nothing is returned) and the error raised
swap(self, data, var, axis, inplace) ==
    LET got == get_matrix(swap_setup(self, IF inplace THEN self ELSE copy(self),
                                     var, axis), data)
    IN [self |-> IF inplace THEN got.self ELSE self,
        returned |-> IF inplace \/ got.raised # "none" THEN None ELSE got.self,
        raised |-> got.raised]

\* _get_drop_idx(codes, keep): 0-based positions in xdef (codes is never None here)
get_drop_idx(self, codes, keep) ==
    IF keep
    THEN LET sel == SelectNotIn(self.xdef, Range(codes))
         IN [k \in 1..Len(sel) |-> IndexOf(self.xdef, sel[k])]
    ELSE LET sel == SelectIn(codes, Range(self.xdef))
         IN [k \in 1..Len(sel) |-> IndexOf(self.xdef, sel[k])]

\* np.place(matrix[:, ix], matrix[:, ix] > 0, np.NaN) for every ix of mis_ix
place_nan(m, mis_ix) ==
    [c \in 1..Len(m) |-> [i \in 1..Len(m[c]) |-> [j \in 1..Len(m[c][i]) |->
        IF (i - 1) \in Range(mis_ix) /\ Pos(m[c][i][j]) THEN NaN ELSE m[c][i][j]]]]

\* np.nansum(np.sum(matrix, axis=1), axis=1) > 0 for one case
row_mask(mc) ==
    LET colsums == [j \in 1..Len(mc[1]) |-> NpSum([i \in 1..Len(mc) |-> mc[i][j]])]
    IN NanSum(colsums) > 0

\* mutant: the base of the cases without a positive row sum is kept
null_unmasked_keep(m) == m

\* matrix[~mask] = np.NaN with the (cases, 1) mask of the code: under the
\* numpy releases this Python 2 code runs on, the boolean index is taken as
\* the index pair (case, 0), so offset 0 of axis 1 (the base) is nulled
null_unmasked(m) ==
    [c \in 1..Len(m) |-> [i \in 1..Len(m[c]) |-> [j \in 1..Len(m[c][i]) |->
        IF i = 1 /\ ~row_mask(m[c]) THEN NaN ELSE m[c][i][j]]]]

\* the missingfied object of _missingfy while it works on axis 'x' of itself;
\* with inplace the object is self, so the miss list set on self lands on it
missingfy_core(m1, codes, axis, keep_codes, keep_base, inplace) ==
    LET mis_ix == [k \in 1..Len(get_drop_idx(m1, codes, keep_codes)) |->
                      get_drop_idx(m1, codes, keep_codes)[k] + 1]
        m2 == [m1 EXCEPT !.matrix = place_nan(m1.matrix, mis_ix)]
        m3 == IF keep_base THEN m2
              ELSE LET m2m == IF ~inplace THEN m2
                              ELSE IF axis = "x" THEN [m2 EXCEPT !.miss_x = codes]
                              ELSE [m2 EXCEPT !.miss_y = codes]
                   IN [m2m EXCEPT !.matrix = null_unmasked(m2m.matrix)]
    IN [obj |-> m3, idx |-> mis_ix]

\* mutant: the test of the total y does not leave out the array masks
missingfy_anytotal(self, codes, axis, keep_codes, keep_base, inplace) ==
    IF axis = "y" /\ self.y = "@"
    THEN [self |-> self, out |-> self, idx |-> << >>, raised |-> "none"]
    ELSE LET m0_ == IF inplace THEN self ELSE copy(self)
             m1 == IF axis = "y" THEN switch_axes(m0_) ELSE m0_
             r == missingfy_core(m1, codes, axis, keep_codes, keep_base, inplace)
             m4 == IF axis = "y" THEN switch_axes(r.obj) ELSE r.obj
             selfmiss == IF keep_base \/ inplace THEN self
                         ELSE IF axis = "x" THEN [self EXCEPT !.miss_x = codes]
                         ELSE [self EXCEPT !.miss_y = codes]
         IN [self |-> IF inplace THEN m4 ELSE selfmiss,
             out |-> m4, idx |-> r.idx, raised |-> "none"]

\* _missingfy: self after the call, the returned object and the returned indices
missingfy(self, codes, axis, keep_codes, keep_base, inplace) ==
    IF axis = "y" /\ self.y = "@" /\ self.type # "array"
    THEN [self |-> self, out |-> self, idx |-> << >>, raised |-> "none"]
    ELSE IF axis = "y" /\ self.type = "array"
    THEN [self |-> self, out |-> self, idx |-> << >>, raised |-> "NotImplementedError"]
    ELSE LET m0_ == IF inplace THEN self ELSE copy(self)
             m1 == IF axis = "y" THEN switch_axes(m0_) ELSE m0_
             r == missingfy_core(m1, codes, axis, keep_codes, keep_base, inplace)
             m4 == IF axis = "y" THEN switch_axes(r.obj) ELSE r.obj
             selfmiss == IF keep_base \/ inplace THEN self
                         ELSE IF axis = "x" THEN [self EXCEPT !.miss_x = codes]
                         ELSE [self EXCEPT !.miss_y = codes]
         IN [self |-> IF inplace THEN m4 ELSE selfmiss,
             out |-> m4, idx |-> r.idx, raised |-> "none"]

exclude(self, codes, axis) ==
    missingfy(self, codes, axis, FALSE, FALSE, TRUE)

limit(self, codes, axis) ==
    missingfy(self, codes, axis, TRUE, TRUE, TRUE)

----------------------------------------------------------------------------
(* Group definitions.  A definition is a bare code list, a logical          *)
(* expression, or a block: a list of single-net dicts {name: codes} with an *)
(* optional 'expand' key.  Net names are numbers from 100 on ('net' is 100) *)
(* so that they can stand beside category codes in comb_x / comb_y.         *)

NetName == 100

\* _grp_type
grp_type(grp_def) ==
    IF grp_def.form = "block" THEN "block"
    ELSE IF grp_def.form = "list" THEN "list"
    ELSE "logical"

\* the dicts iterated by _organize_grp_def: a definition that is not a block
\* is wrapped into [{'net': grp_def, 'expand': method_expand}]
grp_dicts(grp_def, method_expand) ==
    IF grp_type(grp_def) # "block"
    THEN <<[name |-> NetName, val |-> grp_def.val,
            logical |-> (grp_type(grp_def) = "logical"),
            has_expand |-> TRUE, expand |-> method_expand]>>
    ELSE grp_def.val

\* the entry appended to organized_def for one dict (a call that does not raise)
organize_one(grp, method_expand, complete) ==
    IF grp.logical
    THEN [name |-> <<grp.name>>, group |-> grp.val, exp |-> "None", logical |-> TRUE]
    ELSE [name |-> <<grp.name>>, group |-> grp.val,
          exp |-> IF grp.has_expand
                  THEN (IF grp.expand = "None" /\ complete THEN "before" ELSE grp.expand)
                  ELSE method_expand,
          logical |-> FALSE]

RECURSIVE Flatten(_)
Flatten(ss) == IF ss = << >> THEN << >> ELSE Head(ss) \o Flatten(Tail(ss))

HasDuplicates(s) == Cardinality(Range(s)) # Len(s)

\* _add_unused_codes: steps of the loop over the codes of one group
RECURSIVE add_codes(_, _, _)
add_codes(frame, grpdef, codes) ==
    IF codes = << >> THEN frame
    ELSE LET code == Head(codes)
             unit == [kind |-> "code", code |-> code]
             at == CHOOSE k \in 1..Len(frame) :
                      frame[k] = unit /\ \A l \in 1..(k-1) : frame[l] # unit
             placed == [kind |-> "grp", grp |-> grpdef]
             f2 == IF unit \in Range(frame)
                   THEN IF placed \notin Range(frame)
                        THEN [frame EXCEPT ![at] = placed]
                        ELSE [frame EXCEPT ![at] = [kind |-> "-"]]
                   ELSE frame
         IN add_codes(f2, grpdef, Tail(codes))

RECURSIVE add_groups(_, _)
add_groups(frame, grp_def_list) ==
    IF grp_def_list = << >> THEN frame
    ELSE add_groups(add_codes(frame, Head(grp_def_list), Head(grp_def_list).group),
                    Tail(grp_def_list))

add_unused_codes(self, grp_def_list, axis) ==
    LET query_codes == IF axis = "x" THEN self.xdef ELSE self.ydef
        frame0 == [k \in 1..Len(query_codes) |-> [kind |-> "code", code |-> query_codes[k]]]
        frame1 == add_groups(frame0, grp_def_list)
        frame2 == SelectSeq(frame1, LAMBDA e : e.kind # "-")
    IN [k \in 1..Len(frame2) |->
          IF frame2[k].kind = "code"
          THEN [name |-> <<frame2[k].code>>, group |-> <<frame2[k].code>>,
                exp |-> "None", logical |-> FALSE]
          ELSE frame2[k].grp]

\* _organize_grp_def: the organized definition, or the error raised
organize_grp_def(self, grp_def, method_expand0, complete, axis) ==
    LET method_expand == IF method_expand0 = "None" /\ complete THEN "before"
                         ELSE method_expand0
        dicts == grp_dicts(grp_def, method_expand)
        organized_def == [k \in 1..Len(dicts) |->
                             organize_one(dicts[k], method_expand, complete)]
        any_extensions == complete \/ \E k \in 1..Len(dicts) : organized_def[k].exp # "None"
        any_logical == \E k \in 1..Len(dicts) : organized_def[k].logical
        codes_used == Flatten([k \in 1..Len(dicts) |-> organized_def[k].group])
    IN IF complete /\ any_logical
       THEN [raised |-> "NotImplementedError", def |-> << >>]
       ELSE IF ~any_logical /\ HasDuplicates(codes_used) /\ any_extensions
       THEN [raised |-> "NotImplementedError", def |-> << >>]
       ELSE IF complete
       THEN [raised |-> "none", def |-> add_unused_codes(self, organized_def, axis)]
       ELSE [raised |-> "none", def |-> organized_def]

----------------------------------------------------------------------------
(* Net vectors: _slice_vec, _grp_vec, filter / _logic_vec *)

\* mutant: the summed member columns are not normalised to a 0/1 union
net_vec_sum(m, cols) ==
    [c \in 1..Len(m) |->
        <<[j \in 1..Len(m[c][1]) |->
              NanSum([k \in 1..Len(cols) |-> m[c][cols[k] + 1][j]])]>>]

\* np.nansum(m[:, cols], axis=1, keepdims=True) followed by net_vec /= net_vec
net_vec(m, cols) ==
    [c \in 1..Len(m) |->
        <<[j \in 1..Len(m[c][1]) |->
              SelfDiv(NanSum([k \in 1..Len(cols) |-> m[c][cols[k] + 1][j]]))]>>]

slice_vec(self, code, axis) ==
    IF axis = "x"
    THEN TakeX(self.matrix, <<IndexOf(self.xdef, code) + 1>>)
    ELSE TakeX(switch_axes(self).matrix, <<IndexOf(self.ydef, code) + 1>>)

\* the net vector of a clone limited to the codes of the group
netted_vec(netted) == net_vec(netted.matrix, netted._x_indexers)

grp_vec_of(r, axis) ==
    [vec |-> netted_vec(IF axis = "y" THEN switch_axes(r.out) ELSE r.out),
     idx |-> r.idx]

grp_vec(self, codes, axis) ==
    grp_vec_of(missingfy(self, codes, axis, TRUE, TRUE, FALSE), axis)

\* get_logic_index for the expression has_any(codes) on the x column: the
\* data rows whose x answers hold one of the codes
get_logic_index(data, codes) ==
    {c \in DOMAIN data.cases : data.cases[c].x \cap Range(codes) # {}}

\* filter(condition, keep_base=True, inplace=False): the filtered clone
filter(self, data, condition) ==
    LET qualified_rows == get_logic_index(data, condition)
    IN [self EXCEPT
          !.matrix = [c \in 1..Len(self.matrix) |->
                        [i \in 1..Len(self.matrix[c]) |->
                           [j \in 1..Len(self.matrix[c][i]) |->
                              IF self.idx_map[c] \notin qualified_rows /\ i > 1
                              THEN NaN ELSE self.matrix[c][i][j]]]],
          !.logical_conditions = Append(self.logical_conditions, condition)]

logic_vec(self, data, condition) ==
    net_vec(filter(self, data, condition).matrix, self._x_indexers)

\* filter(condition, keep_base=True, inplace): self after the call and the
\* object returned.  _get_logic_qualifiers is called on self and appends to
\* self.logical_conditions, the list the shallow copy shares with self.
filter_call(self, data, condition, inplace) ==
    [self |-> IF inplace THEN filter(self, data, condition)
              ELSE [self EXCEPT !.logical_conditions = Append(@, condition)],
     returned |-> IF inplace THEN None ELSE filter(copy(self), data, condition)]

----------------------------------------------------------------------------
(* Quantity.rescale *)

\* proper_scaling: the items of scaling whose key is a code of xdef
proper_scaling(xdef, scaling) == {old \in DOMAIN scaling : old \in Range(xdef)}

\* xdef_ref: every code looked up once in proper_scaling
xdef_ref(xdef, scaling) ==
    [k \in 1..Len(xdef) |->
        IF xdef[k] \in proper_scaling(xdef, scaling) THEN scaling[xdef[k]] ELSE xdef[k]]

\* rescale(scaling, drop)
rescale(self, scaling, drop) ==
    [(IF drop
      THEN exclude(self, SelectNotIn(self.xdef, proper_scaling(self.xdef, scaling)), "x").self
      ELSE self)
     EXCEPT !.xdef = xdef_ref(self.xdef, scaling)]

----------------------------------------------------------------------------
(* Quantity._clean_from_missings (the last step of _get_matrix) *)

\* the offsets that _missingfy(excluded, keep_base=False, indices=True) returns
excluded_idxer(self, excluded) ==
    IF excluded = << >> THEN << >>
    ELSE missingfy(self, excluded, "x", FALSE, FALSE, TRUE).idx

\* self after that call
excluded_missingfied(self, excluded) ==
    IF excluded = << >> THEN self
    ELSE missingfy(self, excluded, "x", FALSE, FALSE, TRUE).self

\* [code + 1 for code in self._get_drop_idx(hidden, keep=False)]
hidden_idxer(self, hidden) ==
    [k \in 1..Len(get_drop_idx(self, hidden, FALSE)) |->
        get_drop_idx(self, hidden, FALSE)[k] + 1]

\* the three assignments that close _clean_from_missings
drop_sections(self, dropped_codes, dropped_codes_idxer) ==
    [self EXCEPT
        !._x_indexers = SelectNotIn(self._x_indexers, Range(dropped_codes_idxer)),
        !.matrix = TakeX(self.matrix,
                         <<0>> \o SelectNotIn(self._x_indexers, Range(dropped_codes_idxer))),
        !.xdef = SelectNotIn(self.xdef, Range(dropped_codes))]

\* _clean_from_missings for an x variable whose meta declares the codes of
\* hidden as 'hidden' and those of excluded as 'excluded'
clean_from_missings(self, hidden, excluded) ==
    drop_sections(excluded_missingfied(self, excluded),
                  excluded \o hidden,
                  excluded_idxer(self, excluded)
                     \o hidden_idxer(excluded_missingfied(self, excluded), hidden))

\* the Quantity after __init__ when the meta of x declares missings;
\* __init__ sets the miss lists to None after _get_matrix
DeclaredQuantity(data, y, w, base_all, hidden, excluded) ==
    [clean_from_missings(Quantity(data, y, w, base_all), hidden, excluded)
       EXCEPT !.miss_x = None, !.miss_y = None]

----------------------------------------------------------------------------
(* Quantity.rebase, _sects_identical, _sects_different_order, _sect_is_subset *)

sects_identical(axdef1, axdef2) == axdef1 = axdef2

\* _sects_different_order: with equal lengths the test is `if (generator)`,
\* and a generator object is always true
sects_different_order(axdef1, axdef2) == Len(axdef1) = Len(axdef2)

\* _sect_is_subset: `set(...).intersection(...) > 0` compares a set with an
\* int; under Python 2 (the code indexes dict.keys()) an object of any other
\* type is greater than a number, whatever the set holds
sect_is_subset(axdef1, axdef2) == TRUE

\* matrix[:, cols] for 0-based offsets cols of the x axis
TakeColumns(m, cols) ==
    [c \in 1..Len(m) |-> [k \in 1..Len(cols) |-> m[c][cols[k] + 1]]]

\* the reference after the test of the two axes, or the IndexError
rebase_ref(self, ref) ==
    IF sects_identical(self.xdef, ref.xdef) THEN [ref |-> ref, raised |-> "none"]
    ELSE IF sects_different_order(self.xdef, ref.xdef)
    THEN [ref |-> [ref EXCEPT !.xdef = self.xdef,
                             !._x_indexers = get_x_indexers(self),
                             !.matrix = TakeColumns(ref.matrix,
                                                    Append(get_x_indexers(self), 0))],
          raised |-> "none"]
    ELSE IF sect_is_subset(self.xdef, ref.xdef)
    THEN [ref |-> [ref EXCEPT !.xdef = SelectIn(ref.xdef, Range(self.xdef)),
                             !._x_indexers = sort_indexer_as_codes(ref._x_indexers,
                                                                   self.xdef),
                             !.matrix = TakeColumns(ref.matrix,
                                           <<0>> \o sort_indexer_as_codes(ref._x_indexers,
                                                                          self.xdef))],
          raised |-> "none"]
    ELSE [ref |-> ref, raised |-> "IndexError"]

\* (self.result / ref_freq.result) * 100, every cell kept as the pair of
\* 100 * count and reference count; the two arrays need the same shape
rebase_result(result, ref_result) ==
    [i \in 1..Len(result) |-> [j \in 1..Len(result[i]) |->
        <<100 * result[i][j], ref_result[i][j]>>]]

SameShape(a, b) ==
    Len(a) = Len(b) /\ \A i \in 1..Len(a) : Len(a[i]) = Len(b[i])

\* rebase from ref.count(as_df=False) on; s is self with the margins attached
rebase_finish(s, ref_freq, has_margin) ==
    IF ~SameShape(s.result, ref_freq.result) THEN [self |-> s, raised |-> "ValueError"]
    ELSE [self |-> organize_margins(
                      [s EXCEPT !.result = rebase_result(s.result, ref_freq.result),
                                !.rbase = ref_freq.rbase,
                                !.cbase = ref_freq.cbase],
                      has_margin),
          raised |-> "none"]

\* rebase once the reference is swapped in: sw is what swap gave
rebase_on(s, sw, has_margin) ==
    IF sw.raised # "none" THEN [self |-> s, raised |-> sw.raised]
    ELSE IF rebase_ref(s, sw.returned).raised # "none"
    THEN [self |-> s, raised |-> rebase_ref(s, sw.returned).raised]
    ELSE rebase_finish(s, count(rebase_ref(s, sw.returned).ref, "None", FALSE, TRUE),
                       has_margin)

\* rebase(reference, on='counts', overwrite_margins=True): self after the
\* call and the error raised
rebase(self, data, reference) ==
    IF self.result = NoResult \/ self.current_agg # "freq"
    THEN [self |-> self, raised |-> "ValueError"]
    ELSE rebase_on(attach_margins(self).self,
                   swap(attach_margins(self).self, data, reference, "x", FALSE),
                   attach_margins(self).margins)

----------------------------------------------------------------------------
(* Quantity.group *)

\* The loop `for grp in grp_def` works on st: self, the names and combines
\* built so far, the local variable idx (unbound until _grp_vec has run) and
\* the error raised, if any.

\* the net vector of one group, with idx and self as the branch taken leaves
\* them
group_vec(st, data, grp, axis) ==
    IF Len(grp.group) = 1 /\ ~grp.logical
    THEN [vec |-> slice_vec(st.self, grp.group[1], axis),
          idx |-> st.idx, idx_bound |-> st.idx_bound, self |-> st.self]
    ELSE IF ~grp.logical
    THEN [idx_bound |-> TRUE, self |-> st.self] @@ grp_vec(st.self, grp.group, axis)
    ELSE [vec |-> logic_vec(st.self, data, grp.group),
          idx |-> st.idx, idx_bound |-> st.idx_bound,
          self |-> [st.self EXCEPT !.logical_conditions = Append(@, grp.group)]]

\* m_idx: the indexers outside idx, sorted as the codes of the group
members_idx(sw, idx, codes) ==
    sort_indexer_as_codes(SelectNotIn(sw._x_indexers, Range(idx)), codes)

\* names and combines extended by the net of the group and its members
group_members(st, grp, v, sw, m_idx) ==
    [self |-> v.self, idx |-> v.idx, idx_bound |-> v.idx_bound, raised |-> "none",
     names |-> IF grp.exp = "after" THEN st.names \o grp.name \o grp.group
               ELSE st.names \o grp.group \o grp.name,
     ncols |-> st.ncols + 1 + Len(m_idx),
     combines |-> IF grp.exp = "after"
                  THEN ConcatX(st.combines, ConcatX(v.vec, TakeX(sw.matrix, m_idx)))
                  ELSE ConcatX(st.combines, ConcatX(TakeX(sw.matrix, m_idx), v.vec))]

\* the part of a pass after the net vector v is built
group_expand(st, grp, axis, v, sw) ==
    IF grp.exp # "None" /\ ~v.idx_bound
    THEN [st EXCEPT !.self = sw, !.raised = "NameError"]
    ELSE IF grp.exp # "None"
    THEN group_members(st, grp, v, sw, members_idx(sw, v.idx, grp.group))
    ELSE [self |-> v.self, idx |-> v.idx, idx_bound |-> v.idx_bound, raised |-> "none",
          names |-> st.names \o grp.name,
          ncols |-> st.ncols + 1,
          combines |-> ConcatX(st.combines, v.vec)]

group_switched(st, grp, axis, v) ==
    group_expand(st, grp, axis, v, IF axis = "y" THEN switch_axes(v.self) ELSE v.self)

\* one pass of the loop
group_step(st, data, grp, axis) ==
    IF /\ Len(grp.group) = 1 /\ ~grp.logical
       /\ grp.group[1] \notin Range(IF axis = "x" THEN st.self.xdef ELSE st.self.ydef)
    THEN [st EXCEPT !.raised = "ValueError"]
    ELSE group_switched(st, grp, axis, group_vec(st, data, grp, axis))

RECURSIVE group_loop(_, _, _, _)
group_loop(st, data, defs, axis) ==
    IF defs = << >> \/ st.raised # "none" THEN st
    ELSE group_loop(group_step(st, data, Head(defs), axis), data, Tail(defs), axis)

\* the combined matrix and the sectional information after the loop
group_combined(st, axis, combined) ==
    IF axis = "x"
    THEN [self |-> [st.self EXCEPT
                       !.xdef = [k \in 1..st.ncols |-> k - 1],
                       !._x_indexers = get_x_indexers([xdef |-> [k \in 1..st.ncols |-> k - 1]]),
                       !.comb_x = st.names,
                       !.matrix = combined],
          raised |-> "none"]
    ELSE [self |-> [st.self EXCEPT
                       !.ydef = [k \in 1..st.ncols |-> k - 1],
                       !._y_indexers = get_y_indexers([ydef |-> [k \in 1..st.ncols |-> k - 1]]),
                       !.comb_y = st.names,
                       !.matrix = SwapAxes(combined, st.ncols + 1, XDim(st.self))],
          raised |-> "none"]

group_finish(st, axis) ==
    IF st.raised # "none" THEN [self |-> st.self, raised |-> st.raised]
    ELSE group_combined(st, axis,
            ConcatX(TakeX((IF axis = "y" THEN switch_axes(st.self) ELSE st.self).matrix,
                          <<0>>),
                    st.combines))

group_run(self, data, axis, od) ==
    IF od.raised # "none" THEN [self |-> self, raised |-> od.raised]
    ELSE group_finish(group_loop([self |-> self, idx |-> << >>, idx_bound |-> FALSE,
                                  raised |-> "none", names |-> << >>, ncols |-> 0,
                                  combines |-> [c \in 1..Len(self.matrix) |-> << >>]],
                                 data, od.def, axis),
                      axis)

\* group(groups, axis, expand, complete): self after the call and the error raised
group(self, data, groups, axis, expand, complete) ==
    IF axis = "y" /\ self.type = "array"
    THEN [self |-> self, raised |-> "NotImplementedError"]
    ELSE IF axis = "y" /\ self.y = "@" THEN [self |-> self, raised |-> "ValueError"]
    ELSE group_run(self, data, axis,
                   organize_grp_def(self, groups, expand, complete, axis))

----------------------------------------------------------------------------
(* Quantity._factorize, _means, _min, _max, _percentile, _empty_result,    *)
(* summarize (as_df=False)                                                 *)

\* the statistics summarize is modelled for
Stats == {"mean", "min", "max", "lower_q", "median", "upper_q"}

\* np.inf
Inf == 1000000

RECURSIVE GCD(_, _)
GCD(a, b) == IF b = 0 THEN a ELSE GCD(b, a % b)

\* a / b of two non-negative numbers, kept exact as the reduced fraction
\* <<numerator, denominator>>; 0 / 0 (NaN) is <<0, 0>> and a / 0 (inf) <<1, 0>>
Ratio(a, b) ==
    IF b = 0 THEN <<IF a = 0 THEN 0 ELSE 1, 0>>
    ELSE <<a \div GCD(a, b), b \div GCD(a, b)>>

\* np.copyto(matrix[:, 1:, :], np.atleast_3d(xdef), where=matrix[:, 1:, :] > 0)
factor_codes(self) ==
    [self EXCEPT !.matrix =
        [c \in 1..Len(self.matrix) |->
           [i \in 1..Len(self.matrix[c]) |-> [j \in 1..Len(self.matrix[c][i]) |->
              IF i > 1 /\ self.matrix[c][i][j] > 0 THEN self.xdef[i - 1]
              ELSE self.matrix[c][i][j]]]]]

\* _factorize(axis, inplace=False): the factorized copy that is returned
factorize(self, axis) ==
    factor_codes(IF axis = "y" THEN switch_axes(copy([self EXCEPT !.factorized = axis]))
                 ELSE copy([self EXCEPT !.factorized = axis]))

\* np.nansum(factorized.matrix[:, 1:, :], axis=1): per case and column the
\* sum of the codes the case holds
stat_vals(fact) ==
    [c \in 1..Len(fact.matrix) |-> [j \in 1..YDim(fact) |->
        NanSum([i \in 1..(XDim(fact) - 1) |-> fact.matrix[c][i + 1][j]])]]

\* fact_prod_sum / bases of _means on the (weighted) factorized copy
means_row(fact) ==
    <<[j \in 1..YDim(fact) |->
         Ratio(NanSum([i \in 1..(XDim(fact) - 1) |->
                         SumCases(fact.matrix, XDim(fact), YDim(fact))[i + 1][j]]),
               SumCases(fact.matrix, XDim(fact), YDim(fact))[1][j])]>>

\* _means(axis): the means and self after the call
means(self, axis) ==
    [result |-> IF axis = "y"
                THEN Transposed(means_row(IF self.w # "@1" THEN weight(factorize(self, axis))
                                          ELSE factorize(self, axis)))
                ELSE means_row(IF self.w # "@1" THEN weight(factorize(self, axis))
                               ELSE factorize(self, axis)),
     self |-> IF axis = "y" THEN switch_axes([self EXCEPT !.factorized = axis])
              ELSE [self EXCEPT !.factorized = axis]]

RECURSIVE SeqMax(_)
SeqMax(s) == IF Len(s) = 1 THEN s[1]
             ELSE IF s[1] > SeqMax(Tail(s)) THEN s[1] ELSE SeqMax(Tail(s))

RECURSIVE SeqMin(_)
SeqMin(s) == IF Len(s) = 1 THEN s[1]
             ELSE IF s[1] < SeqMin(Tail(s)) THEN s[1] ELSE SeqMin(Tail(s))

\* _max(axis): np.nanmax(vals, axis=0, keepdims=True)
max_row(fact) ==
    <<[j \in 1..YDim(fact) |-> SeqMax([c \in 1..Len(fact.matrix) |-> stat_vals(fact)[c][j]])]>>

\* _min(axis): vals of 0 count as inf unless 0 is a code
min_row(fact) ==
    <<[j \in 1..YDim(fact) |->
         SeqMin([c \in 1..Len(fact.matrix) |->
                   IF stat_vals(fact)[c][j] = 0 /\ 0 \notin Range(fact.xdef) THEN Inf
                   ELSE stat_vals(fact)[c][j]])]>>

\* the cases of a column whose weight (vals / vals) * wv is not NaN, as pairs
\* <<weight, value>> sorted by value (np.argsort)
percentile_pairs(vals, wv, j) ==
    SortPairs(SelectSeq([c \in 1..Len(vals) |-> <<wv[c], vals[c][j]>>],
                        LAMBDA p : p[2] # 0))

\* np.cumsum(iter_weights)
CumSum(ws) == [i \in 1..Len(ws) |-> NanSum(SubSeq(ws, 1, i))]

\* the interpolation branch of _percentile; k4 is four times k and the value
\* returned four times the percentile (perc is a number of quarters); the
\* weights are whole numbers, so w_k1 >= 1.0
percentile_between(ivals, wcsum, k4) ==
    LET wcsum_k == wcsum[CHOOSE i \in 1..Len(wcsum) :
                           /\ 4 * wcsum[i] <= k4
                           /\ \A i2 \in 1..Len(wcsum) : 4 * wcsum[i2] <= k4 => i2 <= i]
        p_k_idx == CHOOSE i \in 1..Len(wcsum) :
                      /\ wcsum[i] >= wcsum_k
                      /\ \A i2 \in 1..Len(wcsum) : wcsum[i2] >= wcsum_k => i <= i2
        excess4 == k4 - 4 * wcsum_k
    IN IF excess4 >= 4 THEN 4 * ivals[p_k_idx + 1]
       ELSE (4 - excess4) * ivals[p_k_idx] + excess4 * ivals[p_k_idx + 1]

\* mutant: k is taken as n * perc
percentile_of_n(ivals, iweights, perc4) ==
    IF Len(ivals) = 0 THEN 0
    ELSE IF Len(ivals) = 1 THEN 4 * ivals[1]
    ELSE IF 4 * CumSum(iweights)[1] > NanSum(iweights) * perc4 THEN 4 * ivals[1]
    ELSE IF 4 * CumSum(iweights)[Len(ivals)] <= NanSum(iweights) * perc4
    THEN 4 * ivals[Len(ivals)]
    ELSE percentile_between(ivals, CumSum(iweights), NanSum(iweights) * perc4)

\* the percentile of one column, times four: iter_vals sorted, their weights,
\* perc4 the requested percentile in quarters
percentile_of(ivals, iweights, perc4) ==
    IF Len(ivals) = 0 THEN 0
    ELSE IF Len(ivals) = 1 THEN 4 * ivals[1]
    ELSE IF 4 * CumSum(iweights)[1] > (NanSum(iweights) + 1) * perc4 THEN 4 * ivals[1]
    ELSE IF 4 * CumSum(iweights)[Len(ivals)] <= (NanSum(iweights) + 1) * perc4
    THEN 4 * ivals[Len(ivals)]
    ELSE percentile_between(ivals, CumSum(iweights), (NanSum(iweights) + 1) * perc4)

\* the two components of a sequence of pairs
Firsts(ps) == [i \in 1..Len(ps) |-> ps[i][1]]
Seconds(ps) == [i \in 1..Len(ps) |-> ps[i][2]]

\* the percentile of one column from its sorted <<weight, value>> pairs
percentile_col(pairs, perc4) == percentile_of(Seconds(pairs), Firsts(pairs), perc4)

\* the loop of _percentile over the columns of vals
percentile_cols(vals, wv, ydim, perc4) ==
    <<[j \in 1..ydim |-> percentile_col(percentile_pairs(vals, wv, j), perc4)]>>

\* _percentile(perc=perc4 / 4); the axis is always 'x'
percentile_row(self, perc4) ==
    percentile_cols(stat_vals(factorize(self, "x")), self.wv, YDim(self), perc4)

\* _empty_result for a statistic: np.zeros((1, ydim)), factorized set to 'x'
empty_result(self) ==
    [self EXCEPT !.factorized = "x",
                 !.result = <<[j \in 1..(IF self.ydef = None THEN 1
                                          ELSE IF Len(self.ydef) = 0 THEN 2
                                          ELSE Len(self.ydef) + 1) |-> 0]>>]

\* summarize up to _organize_margins: self with result set
summarize_stat(self, stat, axis) ==
    IF self.is_empty THEN empty_result(self)
    ELSE IF stat = "mean" THEN [means(self, axis).self EXCEPT !.result = means(self, axis).result]
    ELSE IF stat = "min"
    THEN [self EXCEPT !.factorized = axis, !.result = min_row(factorize(self, axis))]
    ELSE IF stat = "max"
    THEN [self EXCEPT !.factorized = axis, !.result = max_row(factorize(self, axis))]
    ELSE [self EXCEPT !.factorized = "x",
                      !.result = percentile_row(self, IF stat = "lower_q" THEN 1
                                                      ELSE IF stat = "median" THEN 2 ELSE 3)]

\* summarize(stat, axis, margin, as_df=False)
summarize(self, stat, axis, margin) ==
    organize_margins(summarize_stat([self EXCEPT !.current_agg = stat], stat, axis), margin)

----------------------------------------------------------------------------
(* Cache.set_obj / Cache.get_obj and Quantity._get_matrix on the Cache of   *)
(* the DataSet                                                             *)

\* Cache(): a collection holds no key
EmptyCache == [matrices |-> << >>, weight_vectors |-> << >>]

\* self[collection][key] = obj
set_obj(cache, collection, key, obj) ==
    [cache EXCEPT ![collection] =
        [k \in DOMAIN cache[collection] \cup {key} |->
            IF k = key THEN obj ELSE cache[collection][k]]]

\* mutant: the look-up never finds the key
get_obj_miss(cache, collection, key) ==
    IF collection = "matrices" THEN <<None, None>> ELSE None

\* self[collection].get(key, (None, None)) for 'matrices', .get(key, None) else
get_obj(cache, collection, key) ==
    IF key \in DOMAIN cache[collection] THEN cache[collection][key]
    ELSE IF collection = "matrices" THEN <<None, None>> ELSE None

\* `v is None` for an array or a list v
is_None(v) == Len(v) = 1 /\ v[1] = NaN

\* _dummyfy(section): the 0/1 columns of the variable and its codes
dummyfy_section(data, section) ==
    <<[c \in DOMAIN data.cases |->
          dummyfy(data.cases[c][section],
                  IF section = "x" THEN data.xcodes ELSE data.ycodes)],
      IF section = "x" THEN data.xcodes ELSE data.ycodes>>

\* _get_wv() / _get_total(): the column d[[w]]
get_wv_column(data, w) == [c \in DOMAIN data.cases |-> get_wv(data, w, c)]

\* the look-up of one entry in _get_matrix: on a miss the object is computed
\* and stored; computed lists the computations made so far
cache_weight_vector(data, key) ==
    IF is_None(get_obj(data._cache, "weight_vectors", key))
    THEN [data EXCEPT !._cache = set_obj(data._cache, "weight_vectors", key,
                                         get_wv_column(data, key)),
                      !.computed = Append(data.computed, <<"weight_vectors", key>>)]
    ELSE data

cache_matrix(data, section) ==
    IF is_None(get_obj(data._cache, "matrices", section)[1])
    THEN [data EXCEPT !._cache = set_obj(data._cache, "matrices", section,
                                         dummyfy_section(data, section)),
                      !.computed = Append(data.computed, <<"matrices", section>>)]
    ELSE data

\* the DataSet after the look-ups of _get_matrix for a simple Quantity x by y
\* (y may be '@') with weight w
get_matrix_cache(data, y, w) ==
    IF y = "@"
    THEN cache_matrix(cache_weight_vector(cache_weight_vector(data, w), "@1"), "x")
    ELSE cache_matrix(cache_matrix(cache_weight_vector(cache_weight_vector(data, w), "@1"),
                                   "x"), "y")

\* the codes a row of 0/1 columns stands for
Decoded(row, codes) == {codes[k] : k \in {k2 \in 1..Len(codes) : row[k2] = 1}}

\* the local wv / total of _get_matrix: the cached vector, on a miss the
\* computed one
fetched_weight_vector(data, key) ==
    IF is_None(get_obj(data._cache, "weight_vectors", key)) THEN get_wv_column(data, key)
    ELSE get_obj(data._cache, "weight_vectors", key)

\* the local (xm, xdef) / (ym, ydef) of _get_matrix
fetched_matrix(data, section) ==
    IF is_None(get_obj(data._cache, "matrices", section)[1])
    THEN dummyfy_section(data, section)
    ELSE get_obj(data._cache, "matrices", section)

\* what _get_matrix concatenates (total, xm, total, ym, wv), as case data
cached_sections(data, y, w) ==
    [cases |-> [c \in DOMAIN data.cases |->
                  [x |-> Decoded(fetched_matrix(data, "x")[1][c], fetched_matrix(data, "x")[2]),
                   y |-> IF y = "@" THEN {}
                         ELSE Decoded(fetched_matrix(data, "y")[1][c],
                                      fetched_matrix(data, "y")[2]),
                   w |-> fetched_weight_vector(data, w)[c]]],
     xcodes |-> fetched_matrix(data, "x")[2],
     ycodes |-> IF y = "@" THEN data.ycodes ELSE fetched_matrix(data, "y")[2]]

\* Quantity(link, weight=w, base_all=base_all) on a DataSet with its Cache
CachedQuantity(data, y, w, base_all) ==
    Quantity(cached_sections(data, y, w), y, w, base_all)

----------------------------------------------------------------------------
(* Test.__init__, _set_baseline_aggregates, set_params, _convert_level,    *)
(* _cwi, Quantity._effective_n, run, get_sig, _output, _empty_output       *)

RECURSIVE combinations(_)
\* itertools.combinations(s, 2) as a sequence of pairs
combinations(s) ==
    IF Len(s) < 2 THEN << >>
    ELSE [k \in 1..(Len(s) - 1) |-> <<s[1], s[k + 1]>>] \o combinations(Tail(s))

\* the column '@' of the total among the codes of y
Total == 0

\* the counts view of the link x by y: count() with its margins
view_counts(data, w) == count(Quantity(data, "y", w, FALSE), "None", FALSE, TRUE)

\* the baseline aggregates of a test of proportions: values, cbases, rbases,
\* tbase and the Quantity, from the view or (test_total) from a count of the
\* Quantity built with base_all
proportions_baseline(data, w, test_total) ==
    IF ~test_total
    THEN [values |-> DropCol(DropRow(view_counts(data, w).result)),
          cbases |-> DropCol(view_counts(data, w).cbase),
          rbases |-> DropRow(view_counts(data, w).rbase),
          tbase |-> view_counts(data, w).cbase[1][1],
          Quantity |-> Quantity(data, "y", w, FALSE)]
    ELSE [values |-> DropRow(count(Quantity(data, "y", w, TRUE), "None", FALSE, TRUE).result),
          cbases |-> count(Quantity(data, "y", w, TRUE), "None", FALSE, TRUE).cbase,
          rbases |-> DropRow(count(Quantity(data, "y", w, TRUE), "None", FALSE, TRUE).rbase),
          tbase |-> count(Quantity(data, "y", w, TRUE), "None", FALSE, TRUE).cbase[1][1],
          Quantity |-> count(Quantity(data, "y", w, TRUE), "None", FALSE, TRUE)]

\* bases of _means(axis, _return_base=True): fact_prod[[0], :]
means_bases(fact) == <<SumCases(fact.matrix, XDim(fact), YDim(fact))[1]>>

\* the baseline aggregates of a test of means: the means and bases of
\* _dispersion (the standard deviations feed the test statistic only)
means_baseline(data, w, test_total) ==
    [values |-> IF test_total THEN means(Quantity(data, "y", w, TRUE), "x").result
                ELSE DropCol(means(Quantity(data, "y", w, FALSE), "x").result),
     cbases |-> IF test_total
                THEN means_bases(IF w # "@1"
                                 THEN weight(factorize(Quantity(data, "y", w, TRUE), "x"))
                                 ELSE factorize(Quantity(data, "y", w, TRUE), "x"))
                ELSE DropCol(means_bases(IF w # "@1"
                                 THEN weight(factorize(Quantity(data, "y", w, FALSE), "x"))
                                 ELSE factorize(Quantity(data, "y", w, FALSE), "x"))),
     rbases |-> NoResult,
     tbase |-> 0,
     Quantity |-> unweight(unweight(means(Quantity(data, "y", w, test_total), "x").self))]

\* parameters before set_params
NoParameters == [testtype |-> "None", use_ebase |-> "None", ovlp_correc |-> "None",
                 cwi_filter |-> "None", base_flags |-> "None"]

\* Test(link, view_name_notation, test_total) for a view of the given metric
\* without calc(); index and columns of the view are multiindex; level and
\* comparevalue are kept in thousandths, 0 while unset; valdiffs, ebases and
\* overlap do not exist before set_params
TestInit(data, w, metric, test_total, base) ==
    [metric |-> metric, invalid |-> "None", no_pairs |-> "None", no_diffs |-> "None",
     parameters |-> NoParameters, test_total |-> test_total, mimic |-> "None",
     level |-> 0, comparevalue |-> 0,
     Quantity |-> base.Quantity,
     values |-> base.values, cbases |-> base.cbases, rbases |-> base.rbases,
     tbase |-> base.tbase,
     is_weighted |-> (w # "@1"), has_calc |-> FALSE,
     xdef |-> IF metric = "means" THEN <<1>> ELSE data.xcodes,
     ydef |-> data.ycodes,
     ypairs |-> combinations(IF test_total THEN <<Total>> \o data.ycodes ELSE data.ycodes),
     y_is_multi |-> (\E c \in DOMAIN data.cases : Cardinality(data.cases[c].y) > 1),
     multiindex |-> <<IF metric = "means" THEN <<1>> ELSE data.xcodes, data.ycodes>>,
     valdiffs |-> NoResult, ebases |-> NoResult, overlap |-> NoResult, flags |-> "None"]

Test(data, w, metric, test_total) ==
    TestInit(data, w, metric, test_total,
             IF metric = "means" THEN means_baseline(data, w, test_total)
             ELSE proportions_baseline(data, w, test_total))

\* _convert_level(level) under self.mimic: comparevalue and siglevel in
\* thousandths; comparevalue is never assigned for another mimic or string
convert_level(mimic, level) ==
    IF mimic \notin {"Dim", "askia"} \/ level \notin {"low", "mid", "high"}
    THEN [raised |-> "UnboundLocalError", comparevalue |-> 0, siglevel |-> 0]
    ELSE [raised |-> "none",
          comparevalue |-> IF mimic = "Dim"
                           THEN (CASE level = "low" -> 100 [] level = "mid" -> 50
                                   [] OTHER -> 10)
                           ELSE (CASE level = "low" -> 1650 [] level = "mid" -> 1960
                                   [] OTHER -> 2576),
          siglevel |-> CASE level = "low" -> 100 [] level = "mid" -> 50 [] OTHER -> 10]

\* np.nansum(self.values) == 0, on counts or on means
values_sum_is_zero(self) ==
    IF self.metric = "means"
    THEN \A i \in 1..Len(self.values) : \A j \in 1..Len(self.values[i]) :
             self.values[i][j][1] = 0
    ELSE \A i \in 1..Len(self.values) : NanSum(self.values[i]) = 0

\* np.place(arr, arr == 0, np.NaN) on a row
place_zeros(row) == [j \in 1..Len(row) |-> IF row[j] = 0 THEN NaN ELSE row[j]]

\* cwi = (t_cell_n * c_col_n) / t_col_n; cwi[cwi < threshold] = NaN: whether
\* the entry of a column stays a number
cwi_kept(t_cell, c_col, t_col) ==
    /\ t_cell # NaN /\ c_col # NaN /\ t_col # NaN /\ t_col # 0
    /\ t_cell * c_col >= 5 * t_col

\* self after the four np.place calls of _cwi: the zeros of rbases[0], cbases
\* and values are NaN (tbase is a scalar)
cwi_placed(self) ==
    [self EXCEPT !.rbases = [i \in 1..Len(self.rbases) |->
                               IF i = 1 THEN place_zeros(self.rbases[i]) ELSE self.rbases[i]],
                 !.cbases = <<place_zeros(self.cbases[1])>>,
                 !.values = [i \in 1..Len(self.values) |-> place_zeros(self.values[i])]]

\* c_cell_n + cwi - cwi on self after the np.place calls; rbases has one
\* column, so t_cell_n is rbases[0]
cwi_values(s) ==
    [i \in 1..Len(s.values) |-> [j \in 1..Len(s.values[i]) |->
        IF cwi_kept(s.rbases[1][1], s.cbases[1][j], s.tbase) THEN s.values[i][j] ELSE NaN]]

\* _cwi(): self with values replaced by the filtered counts
cwi(self) == [cwi_placed(self) EXCEPT !.values = cwi_values(cwi_placed(self))]

\* v / b of a count and a base as a fraction
prop(v, b) == IF v = NaN \/ b = NaN THEN <<0, 0>> ELSE Ratio(v, b)

\* p - r of two fractions (denominator 0: NaN <<0, 0>>, inf <<1, 0>>): a
\* fraction whose numerator carries the sign
frac_sub(p, r) ==
    IF p = <<0, 0>> \/ r = <<0, 0>> THEN <<0, 0>>
    ELSE IF p[2] = 0 /\ r[2] = 0 THEN <<0, 0>>
    ELSE IF p[2] = 0 THEN <<1, 0>>
    ELSE IF r[2] = 0 THEN <<-1, 0>>
    ELSE <<p[1] * r[2] - r[1] * p[2], p[2] * r[2]>>

\* the tested value per row and column: values / cbases, or the means
props(self) ==
    IF self.metric = "means" THEN self.values
    ELSE [i \in 1..Len(self.values) |-> [j \in 1..Len(self.values[i]) |->
            prop(self.values[i][j], self.cbases[1][j])]]

\* the pairs of column positions, in the order of combinations
col_pairs(n) == combinations([j \in 1..n |-> j])

\* valdiffs: per row the difference p1 - p2 of every pair of columns
valdiffs(self) ==
    [i \in 1..Len(props(self)) |->
       [k \in 1..Len(col_pairs(Len(props(self)[i]))) |->
          frac_sub(props(self)[i][col_pairs(Len(props(self)[i]))[k][1]],
                   props(self)[i][col_pairs(Len(props(self)[i]))[k][2]])]]

\* v as a fraction
as_frac(v) == IF v = NaN THEN <<0, 0>> ELSE <<v, 1>>

\* v ** 2
Sq(v) == IF v = NaN THEN NaN ELSE v * v

\* np.nansum(matrix, axis=0)**2 / np.nansum(matrix**2, axis=0), row [0] from
\* start_on, on the weighted matrix
effective_row(m, ydim, start_on) ==
    <<[j \in 1..(ydim - start_on) |->
         Ratio(Sq(NanSum([c \in 1..Len(m) |-> m[c][1][j + start_on]])),
               NanSum([c \in 1..Len(m) |-> Sq(m[c][1][j + start_on])]))]>>

\* Quantity._effective_n(axis='x', margin): the effective bases and the
\* Quantity after weight() and unweight()
effective_n(quantity, margin) ==
    [result |-> effective_row(weight(quantity).matrix, YDim(quantity),
                              IF margin THEN 0 ELSE 1),
     self |-> unweight(weight(quantity))]

\* m of _overlap: per case and column the sum over x of the matrix (with
\* the margins when test_total), m /= m when unweighted, zeros NaN
overlap_m(matrix, test_total, is_weighted) ==
    [c \in 1..Len(matrix) |->
       [j \in 1..(Len(matrix[c][1]) - (IF test_total THEN 0 ELSE 1)) |->
          place_zeros(<<IF is_weighted
                      THEN NanSum([i \in 1..(Len(matrix[c]) - (IF test_total THEN 0 ELSE 1)) |->
                                     matrix[c][i + (IF test_total THEN 0 ELSE 1)]
                                           [j + (IF test_total THEN 0 ELSE 1)]])
                      ELSE SelfDiv(NanSum([i \in 1..(Len(matrix[c]) - (IF test_total THEN 0 ELSE 1)) |->
                                     matrix[c][i + (IF test_total THEN 0 ELSE 1)]
                                           [j + (IF test_total THEN 0 ELSE 1)]]))>>)[1]]]

\* a + b of two entries, NaN when one of them is
NanAdd(a, b) == IF a = NaN \/ b = NaN THEN NaN ELSE a + b

\* np.nan_to_num(x / (2 * y)) as a fraction
half_ratio(x, y) == IF y = 0 THEN <<0, 1>> ELSE Ratio(x, 2 * y)

\* the overlap of one pair of columns of m
overlap_pair(m, c1, c2, effective) ==
    IF effective
    THEN half_ratio(Sq(NanSum([c \in 1..Len(m) |-> NanAdd(m[c][c1], m[c][c2])])),
                    NanSum([c \in 1..Len(m) |-> NanAdd(Sq(m[c][c1]), Sq(m[c][c2]))]))
    ELSE half_ratio(NanSum([c \in 1..Len(m) |-> NanAdd(m[c][c1], m[c][c2])]), 1)

\* the row of overlaps of the pairs of columns of m
overlap_row(m, ncols, effective) ==
    <<[k \in 1..Len(col_pairs(ncols)) |->
         overlap_pair(m, col_pairs(ncols)[k][1], col_pairs(ncols)[k][2], effective)]>>

\* _overlap(): the overlaps and self, whose Quantity stays weighted when the
\* test is weighted
overlap(self) ==
    [result |-> overlap_row(overlap_m((IF self.is_weighted THEN weight(self.Quantity)
                                       ELSE self.Quantity).matrix,
                                      self.test_total, self.is_weighted),
                            YDim(self.Quantity) - (IF self.test_total THEN 0 ELSE 1),
                            self.parameters.use_ebase = "True" /\ self.is_weighted),
     self |-> IF self.is_weighted THEN [self EXCEPT !.Quantity = weight(self.Quantity)]
              ELSE self]

\* np.zeros(self.valdiffs.shape)
zeros_like(a) == [i \in 1..Len(a) |-> [k \in 1..Len(a[i]) |-> <<0, 1>>]]

\* the parameters of the two mimics
mimic_parameters(mimic) ==
    IF mimic = "askia"
    THEN [testtype |-> "unpooled", use_ebase |-> "False", ovlp_correc |-> "False",
          cwi_filter |-> "True", base_flags |-> "None"]
    ELSE [testtype |-> "pooled", use_ebase |-> "True", ovlp_correc |-> "True",
          cwi_filter |-> "False", base_flags |-> "None"]

\* set_params from `[2] overlap correction` on (flag_bases=None)
set_overlap(s) ==
    IF s.y_is_multi /\ s.parameters.ovlp_correc = "True"
    THEN [overlap(s).self EXCEPT !.overlap = overlap(s).result]
    ELSE [s EXCEPT !.overlap = zeros_like(s.valdiffs)]

\* set_params from `[1] effective base usage` on: the arguments decide
set_ebases(s, use_ebase) ==
    set_overlap(IF use_ebase /\ s.is_weighted
                THEN [s EXCEPT !.ebases = effective_n(s.Quantity, s.test_total).result,
                               !.Quantity = effective_n(s.Quantity, s.test_total).self]
                ELSE [s EXCEPT !.ebases = <<[j \in 1..Len(s.cbases[1]) |->
                                               as_frac(s.cbases[1][j])]>>])

\* set_params from the value differences on; s has the parameters of the mimic
set_valdiffs(s, use_ebase) == set_ebases([s EXCEPT !.valdiffs = valdiffs(s)], use_ebase)

\* the counts-when-independent filter of set_params, under the argument
\* cwi_filter; np.place refuses the scalar tbase on builds of numpy that
\* type-check its first argument (place_scalar = "TypeError")
set_filtered(s, use_ebase, cwi_filter, place_scalar) ==
    IF s.metric = "proportions" /\ cwi_filter
    THEN IF place_scalar # "none" THEN [self |-> s, raised |-> place_scalar]
         ELSE [self |-> set_valdiffs(cwi(s), use_ebase), raised |-> "none"]
    ELSE [self |-> set_valdiffs(s, use_ebase), raised |-> "none"]

\* the branch of set_params for an aggregation that can be tested
set_valid(s, level, mimic, use_ebase, cwi_filter, place_scalar) ==
    IF mimic \notin {"Dim", "askia"} THEN [self |-> s, raised |-> "ValueError"]
    ELSE IF convert_level(mimic, level).raised # "none"
    THEN [self |-> [s EXCEPT !.mimic = mimic, !.parameters = mimic_parameters(mimic),
                             !.test_total = IF mimic = "askia" THEN FALSE ELSE @],
          raised |-> convert_level(mimic, level).raised]
    ELSE set_filtered([s EXCEPT !.mimic = mimic, !.parameters = mimic_parameters(mimic),
                                !.test_total = IF mimic = "askia" THEN FALSE ELSE @,
                                !.comparevalue = convert_level(mimic, level).comparevalue,
                                !.level = convert_level(mimic, level).siglevel],
                      use_ebase, cwi_filter, place_scalar)

\* the branch of set_params for an empty aggregation or a single column
set_invalid(s, level, mimic) ==
    IF convert_level(mimic, level).raised # "none"
    THEN [self |-> [s EXCEPT !.mimic = mimic],
          raised |-> convert_level(mimic, level).raised]
    ELSE [self |-> [s EXCEPT !.mimic = mimic,
                             !.comparevalue = convert_level(mimic, level).comparevalue,
                             !.level = convert_level(mimic, level).siglevel],
          raised |-> "none"]

\* set_params(test_total, level, mimic, testtype, use_ebase, ovlp_correc,
\* cwi_filter, flag_bases=None): self after the call and the error raised;
\* test_total, testtype and ovlp_correc are not read
set_params(self, level, mimic, use_ebase, cwi_filter, place_scalar) ==
    IF values_sum_is_zero(self) \/ Len(self.ydef) = 1
    THEN set_invalid([self EXCEPT !.invalid = "True",
                                  !.no_diffs = IF values_sum_is_zero(self) THEN "True" ELSE @,
                                  !.no_pairs = IF Len(self.ydef) = 1 THEN "True" ELSE @],
                     level, mimic)
    ELSE set_valid([self EXCEPT !.invalid = "False", !.no_diffs = "False",
                                !.no_pairs = "False"],
                   level, mimic, use_ebase, cwi_filter, place_scalar)

\* the markers '@H' and '@L' of a column tested against the total
AtH == 100
AtL == 101

\* a cell of the returned table that is NaN
NaNCell == <<NaN>>

\* pd.DataFrame(values, index, columns): ValueError unless the shape of
\* values is that of the labels
DataFrame(values, index, columns) ==
    IF Len(values) = Len(index) /\ \A i \in 1..Len(values) : Len(values[i]) = Len(columns)
    THEN [raised |-> "none", values |-> values, index |-> index, columns |-> columns]
    ELSE [raised |-> "ValueError", values |-> << >>, index |-> << >>, columns |-> << >>]

\* values[:] = np.NaN
all_nan(values) == [i \in 1..Len(values) |-> [j \in 1..Len(values[i]) |-> NaNCell]]

\* self after _empty_output: values[:] = np.NaN writes into self.values
empty_output_self(self) ==
    IF \/ self.metric = "proportions" /\ (self.no_pairs = "True" \/ self.no_diffs = "True")
       \/ self.metric = "means" /\ self.no_diffs = "True" /\ self.no_pairs # "True"
    THEN [self EXCEPT !.values = [i \in 1..Len(self.values) |->
                                    [j \in 1..Len(self.values[i]) |->
                                       IF self.metric = "means" THEN <<0, 0>> ELSE NaN]]]
    ELSE self

\* the values _empty_output hands to pd.DataFrame
empty_output_values(self) ==
    IF self.metric = "proportions"
    THEN (IF Len(self.values) = 1 /\ Len(self.values[1]) \in {0, 1} THEN <<<<NaNCell>>>>
          ELSE IF self.no_pairs = "True" \/ self.no_diffs = "True" THEN all_nan(self.values)
          ELSE self.values)
    ELSE (IF self.no_pairs = "True" THEN <<<<NaNCell>>>>
          ELSE IF self.no_diffs = "True" THEN all_nan(self.values)
          ELSE self.values)

\* _empty_output(): the table (or the error) and self
empty_output(self) ==
    [returned |-> DataFrame(empty_output_values(self), self.multiindex[1], self.multiindex[2]),
     self |-> empty_output_self(self)]

\* get_sig(): diffs[(diffs != 0) & rule], the rule being stat < comparevalue
\* (Dim) or stat > comparevalue (askia); met holds the cells <<row, pair>>
\* whose converted statistic meets it; a NaN difference has a NaN statistic
get_sig(self, met) ==
    [i \in 1..Len(self.valdiffs) |-> [k \in 1..Len(self.valdiffs[i]) |->
        IF self.valdiffs[i][k][1] # 0 /\ <<i, k>> \in met
        THEN self.valdiffs[i][k] ELSE <<0, 0>>]]

\* mutant: the column with the smaller value lists the larger one
output_item_smaller(col, v, y) ==
    IF v[1] > 0 /\ col[1] = Total /\ col[2] = y THEN AtH
    ELSE IF v[1] > 0 /\ col[1] # Total /\ col[2] = y THEN col[1]
    ELSE IF v[1] < 0 /\ col[1] = y THEN col[2]
    ELSE NaN

\* what the pair col with significant difference v appends to the cell of
\* column y in _output (no base flags), NaN for nothing
output_item(col, v, y) ==
    IF v[1] > 0 /\ col[1] = Total /\ col[2] = y THEN AtH
    ELSE IF v[1] > 0 /\ col[1] # Total /\ col[1] = y THEN col[2]
    ELSE IF v[1] < 0 /\ col[2] = y THEN (IF col[1] = Total THEN AtL ELSE col[1])
    ELSE NaN

\* res[y][row] after the loop over the pairs; '[]' becomes NaN
output_cell(self, sigs, i, y) ==
    IF SelectSeq([k \in 1..Len(self.ypairs) |-> output_item(self.ypairs[k], sigs[i][k], y)],
                 LAMBDA c : c # NaN) = << >>
    THEN NaNCell
    ELSE SelectSeq([k \in 1..Len(self.ypairs) |-> output_item(self.ypairs[k], sigs[i][k], y)],
                   LAMBDA c : c # NaN)

\* _output(sigs): the table of the codes per row of xdef and column of ydef,
\* labelled with multiindex
output(self, sigs) ==
    [raised |-> "none",
     values |-> [i \in 1..Len(self.xdef) |-> [j \in 1..Len(self.ydef) |->
                    output_cell(self, sigs, i, self.ydef[j])]],
     index |-> self.multiindex[1], columns |-> self.multiindex[2]]

\* run(): the table returned (or the error raised) and self; without
\* valdiffs get_statistic raises AttributeError
run(self, met) ==
    IF self.invalid = "True" THEN empty_output(self)
    ELSE IF self.valdiffs = NoResult
    THEN [returned |-> [raised |-> "AttributeError", values |-> << >>, index |-> << >>,
                        columns |-> << >>],
          self |-> self]
    ELSE [returned |-> output(self, get_sig(self, met)), self |-> self]

----------------------------------------------------------------------------
(* State: the dataset d, the Quantity q built on it, the last call op and   *)
(* the Quantity as it was before the last weight(), group() or              *)
(* _switch_axes() call.                                                     *)

RECURSIVE Bits(_)
\* a set of codes as a number, to order the cases of a dataset
Bits(S) == IF S = {} THEN 0
           ELSE LET c == CHOOSE a \in S : TRUE IN 2^(c - 1) + Bits(S \ {c})

CaseKey(r) == 1000 * Bits(r.x) + 10 * Bits(r.y) + r.w

\* the datasets over the given answers and weights, one per multiset of cases
\* (no operation depends on the order of the cases)
Datasets(xanswers, yanswers, weights, xorders) ==
    {ds \in [cases : {cs \in [CaseIds -> [x : xanswers, y : yanswers, w : weights]] :
                         \A a, b \in CaseIds : a < b => CaseKey(cs[a]) <= CaseKey(cs[b])},
             xcodes : xorders,
             ycodes : {SeqOfSet(YCodes)}] : TRUE}

NoCall == [name |-> "init", axis |-> "None", margin |-> FALSE, raw_sum |-> FALSE,
           codes |-> << >>, groups |-> [form |-> "none", val |-> << >>],
           expand |-> "None", complete |-> FALSE,
           raised |-> "none", nw |-> 0, ne |-> 0, ng |-> 0, limited |-> FALSE,
           var |-> "None", inplace |-> TRUE, scaling |-> << >>, drop |-> FALSE,
           nr |-> 0, expr |-> << >>, result_only |-> FALSE, stat |-> "None", ns |-> 0]

Call(name, axis, codes, raised) ==
    [NoCall EXCEPT !.name = name, !.axis = axis, !.codes = codes, !.raised = raised,
                   !.nw = op.nw, !.ne = op.ne, !.ng = op.ng, !.limited = op.limited,
                   !.nr = op.nr, !.ns = op.ns]

\* history: what the property of a pair of calls needs of the first call
NoPre == [kind |-> "none", q |-> << >>, result |-> << >>, margin |-> FALSE,
          call |-> NoCall, clone |-> << >>]

Snapshot(kind, obj) == [NoPre EXCEPT !.kind = kind, !.q = obj]

InitWith(datasets, ys, ws, base_alls) ==
    /\ d \in datasets
    /\ \E y \in ys, w \in ws, base_all \in base_alls : q = Quantity(d, y, w, base_all)
    /\ op = NoCall
    /\ pre = NoPre

CodeLists(codes) == {SeqOfSet(S) : S \in (SUBSET codes) \ {{}}}

\* q.count(axis, raw_sum, margin, as_df=False) for axis among axes
CountOn(axes) ==
    /\ \E axis \in axes, raw_sum \in BOOLEAN, margin \in BOOLEAN :
         IF axis = "None" /\ raw_sum
         THEN /\ q' = q
              /\ op' = [Call("count", axis, << >>, "ValueError") EXCEPT
                           !.margin = margin, !.raw_sum = raw_sum]
         ELSE /\ q' = count(q, axis, raw_sum, margin)
              /\ op' = [Call("count", axis, << >>, "none") EXCEPT
                           !.margin = margin, !.raw_sum = raw_sum]
    /\ pre' = IF op.name = "count" /\ op.axis = "None" /\ op.raised = "none"
              THEN [NoPre EXCEPT !.kind = "count", !.result = q.result,
                                 !.margin = op.margin]
              ELSE IF op.name = "group" /\ op.raised = "none"
              THEN [pre EXCEPT !.kind = "grouped", !.call = op]
              ELSE NoPre
    /\ UNCHANGED d

Count == CountOn({"None", "x", "y"})

CountFreq == CountOn({"None"})

\* q.weight()
Weight ==
    /\ op.nw < MaxWeightCalls
    /\ q' = weight(q)
    /\ op' = [Call("weight", "None", << >>, "none") EXCEPT !.nw = op.nw + 1]
    /\ pre' = Snapshot("weight", q)
    /\ UNCHANGED d

\* q.unweight()
Unweight ==
    /\ q' = unweight(q)
    /\ op' = Call("unweight", "None", << >>, "none")
    /\ pre' = IF op.name = "weight" THEN pre ELSE NoPre
    /\ UNCHANGED d

\* q.exclude(codes, axis) for an axis token among axes and a list of codes of
\* the axis or of others
ExcludeOn(axes, others) ==
    /\ op.ne < MaxEdits
    /\ \E axis \in axes :
         \E codes \in CodeLists((IF axis = "y" THEN YCodes ELSE XCodes) \cup others) :
            \E r \in {exclude(q, codes, axis)} :
               /\ q' = r.self
               /\ op' = [Call("exclude", axis, codes, r.raised) EXCEPT !.ne = op.ne + 1]
    /\ pre' = NoPre
    /\ UNCHANGED d

Exclude == ExcludeOn({"x", "y"}, {})

\* q.limit(codes, axis)
LimitOn(axes, others) ==
    /\ op.ne < MaxEdits
    /\ \E axis \in axes :
         \E codes \in CodeLists((IF axis = "y" THEN YCodes ELSE XCodes) \cup others) :
            \E r \in {limit(q, codes, axis)} :
               /\ q' = r.self
               /\ op' = [Call("limit", axis, codes, r.raised) EXCEPT
                            !.ne = op.ne + 1, !.limited = TRUE]
    /\ pre' = NoPre
    /\ UNCHANGED d

Limit == LimitOn({"x", "y"}, {})

\* q._switch_axes()
SwitchAxes ==
    /\ q' = switch_axes(q)
    /\ op' = Call("switch", "None", << >>, "none")
    /\ pre' = IF op.name = "switch" /\ pre.kind = "switch"
              THEN [pre EXCEPT !.kind = "switched back"]
              ELSE Snapshot("switch", q)
    /\ UNCHANGED d

\* group definitions: a code list, a logical expression has_any(codes), the
\* single-net dict {name: codes} of a block and the block itself
ListGrp(codes) == [form |-> "list", val |-> codes]

LogicalGrp(codes) == [form |-> "logical", val |-> codes]

NetDict(name, codes, logical) ==
    [name |-> name, val |-> codes, logical |-> logical,
     has_expand |-> FALSE, expand |-> "None"]

BlockGrp(dicts) == [form |-> "block", val |-> dicts]

\* q.group(groups, axis, expand, complete) for a definition among inputs
GroupOn(inputs) ==
    /\ op.ng < MaxGroups
    /\ \E g \in inputs, expand \in {"None", "before", "after"}, complete \in BOOLEAN :
         \E r \in {group(q, d, g.groups, g.axis, expand, complete)} :
            /\ q' = r.self
            /\ op' = [Call("group", g.axis, << >>, r.raised) EXCEPT
                         !.groups = g.groups, !.expand = expand,
                         !.complete = complete, !.ng = op.ng + 1]
    /\ pre' = Snapshot("group", q)
    /\ UNCHANGED d

----------------------------------------------------------------------------
(* Specifications *)

Singles(codes) == {{c} : c \in codes}

NatOrder == {SeqOfSet(XCodes)}

\* unweighted Quantities on every dataset, weighted ones on single-coded data
\* (with missing answers), and Quantities on the total '@' as y
InitCount ==
    \/ InitWith(Datasets(SUBSET XCodes, SUBSET YCodes, {1}, NatOrder),
                {"y"}, {"@1"}, BOOLEAN)
    \/ InitWith(Datasets(Singles(XCodes) \cup {{}}, Singles(YCodes) \cup {{}}, Weights, NatOrder),
                {"y"}, {"w"}, BOOLEAN)
    \/ InitWith(Datasets(SUBSET XCodes, {{}}, {1}, NatOrder), {"@"}, {"@1"}, {FALSE})
    \/ InitWith(Datasets(Singles(XCodes), {{}}, Weights, NatOrder), {"@"}, {"w"}, {FALSE})

Init == InitCount

Next == Count

Spec == Init /\ [][Next]_vars

\* weighted Quantities on single-coded data, zero weights included
InitWeight ==
    InitWith(Datasets(Singles(XCodes) \cup {{}}, Singles(YCodes) \cup {{}},
                      Weights \cup {0}, NatOrder),
             {"y"}, {"w"}, {FALSE})

NextWeight == Weight \/ Unweight

SpecWeight == InitWeight /\ [][NextWeight]_vars

\* unweighted Quantities on data with multi-coded and missing answers, and
\* weighted ones on complete single-coded data
InitMiss ==
    \/ InitWith(Datasets(SUBSET {1, 2}, Singles(YCodes) \cup {{}}, {1}, NatOrder),
                {"y"}, {"@1"}, BOOLEAN)
    \/ InitWith(Datasets(Singles({1, 2}), Singles(YCodes), Weights, NatOrder),
                {"y"}, {"w"}, {FALSE})

NextMiss == Exclude \/ Limit \/ CountFreq

SpecMiss == InitMiss /\ [][NextMiss]_vars

\* exclude / limit with any axis token and with codes that are on no axis
ExcludeAny == ExcludeOn({"x", "y", "z"}, {9})

LimitAny == LimitOn({"x", "y", "z"}, {9})

InitEdit ==
    InitWith(Datasets((SUBSET {1, 2}) \ {{}}, Singles(YCodes), {1}, NatOrder),
             {"y"}, {"@1"}, {FALSE})

NextEdit == ExcludeAny \/ LimitAny

SpecEdit == InitEdit /\ [][NextEdit]_vars

\* Quantities on an array mask of two single-coded items, and on the total y
InitArray ==
    \/ /\ d \in Datasets(Singles({1, 2}) \cup {{}}, Singles({1, 2}) \cup {{}}, {1}, NatOrder)
       /\ q = ArrayQuantity(d, "@1")
       /\ op = NoCall
       /\ pre = NoPre
    \/ InitWith(Datasets(Singles({1, 2}), {{}}, {1}, NatOrder), {"@"}, {"@1"}, {FALSE})

ArrayGroupInputs ==
    {[groups |-> ListGrp(s), axis |-> a] : s \in {<<1, 2>>, <<2>>}, a \in {"x", "y"}}

GroupArray == GroupOn(ArrayGroupInputs)

\* exclude on the x axis of an array takes the mask of an array (not modelled):
\* exclude is called on y only
ExcludeY == ExcludeOn({"y"}, {})

NextArray == GroupArray \/ ExcludeY \/ Limit

SpecArray == InitArray /\ [][NextArray]_vars

\* the group definitions of the grouping scenarios: code lists in and out of
\* axis order, a single code, a logical expression and blocks of named nets
NetA == NetDict(NetName + 1, <<1, 2>>, FALSE)

NetsAB == BlockGrp(<<NetA, NetDict(NetName + 2, <<3>>, FALSE)>>)

Overlapping == BlockGrp(<<NetA, NetDict(NetName + 2, <<2, 3>>, FALSE)>>)

OverlappingOwnExpand ==
    BlockGrp(<<NetA, [NetDict(NetName + 2, <<2, 3>>, FALSE) EXCEPT
                         !.has_expand = TRUE, !.expand = "after"]>>)

OverlappingWithLogical ==
    BlockGrp(<<NetA, NetDict(NetName + 2, <<2, 3>>, FALSE),
               NetDict(NetName + 3, <<1>>, TRUE)>>)

GroupInputs ==
    {[groups |-> ListGrp(s), axis |-> "x"] :
        s \in {<<1, 2>>, <<2, 1>>, <<2>>, <<3, 1>>, <<2, 3, 1>>}}
    \cup {[groups |-> ListGrp(s), axis |-> "y"] : s \in {<<1, 2>>, <<2, 1>>, <<1>>}}
    \cup {[groups |-> g, axis |-> "x"] :
            g \in {LogicalGrp(<<1>>), NetsAB, Overlapping, OverlappingOwnExpand,
                   OverlappingWithLogical}}

Group == GroupOn(GroupInputs)

\* unweighted Quantities on data with a multi-coded answer, and weighted ones
InitGroup ==
    \/ InitWith(Datasets(Singles(XCodes) \cup {{1, 2}}, Singles(YCodes), {1}, NatOrder),
                {"y"}, {"@1"}, {FALSE})
    \/ InitWith(Datasets({{1}, {3}}, {{1}}, Weights, NatOrder), {"y"}, {"w"}, {FALSE})

NextGroup == Group

SpecGroup == InitGroup /\ [][NextGroup]_vars

\* the two nets A=[1,2], B=[3] on x, and a net on y
NetInputs ==
    {[groups |-> NetsAB, axis |-> "x"], [groups |-> ListGrp(<<1, 2>>), axis |-> "y"]}

GroupNets == GroupOn(NetInputs)

InitNets ==
    \/ InitWith(Datasets({{1}, {3}, {1, 2}}, Singles(YCodes), {1}, NatOrder),
                {"y"}, {"@1"}, {FALSE})
    \/ InitWith(Datasets({{1}, {3}}, {{1}}, Weights, NatOrder), {"y"}, {"w"}, {FALSE})

NextNets == GroupNets \/ CountFreq

SpecNets == InitNets /\ [][NextNets]_vars

\* a few group definitions on either axis, a single code included
FewGroupInputs ==
    {[groups |-> ListGrp(s), axis |-> a] : s \in {<<1, 2>>, <<2>>}, a \in {"x", "y"}}

GroupFew == GroupOn(FewGroupInputs)

InitSwitch ==
    InitWith(Datasets({{1}, {1, 2}}, Singles(YCodes), {1}, NatOrder),
             {"y"}, {"@1"}, {FALSE})

NextSwitch == SwitchAxes \/ Exclude \/ GroupFew

SpecSwitch == InitSwitch /\ [][NextSwitch]_vars

\* swap and filter, in place and on a clone.  No method is called on a
\* Quantity that a failed swap has left without its attributes.
Usable == q.cache # "None"

SwapInputs == {<<"x", "x">>, <<"y", "y">>, <<"@", "y">>}

\* q.swap(var, axis, inplace)
Swap ==
    /\ Usable
    /\ \E va \in SwapInputs, inplace \in BOOLEAN :
         \E r \in {swap(q, d, va[1], va[2], inplace)} :
            /\ q' = r.self
            /\ op' = [Call("swap", va[2], << >>, r.raised) EXCEPT
                         !.var = va[1], !.inplace = inplace]
            /\ pre' = [Snapshot("swap", q) EXCEPT !.clone = r.returned]
    /\ UNCHANGED d

\* clone = q.filter(has_any(codes), inplace=False)
FilterCopy ==
    /\ Usable
    /\ Len(q.logical_conditions) < MaxFilters
    /\ \E codes \in CodeLists({1, 2}) :
         \E r \in {filter_call(q, d, codes, FALSE)} :
            /\ q' = r.self
            /\ op' = [Call("filter", "x", codes, "none") EXCEPT !.inplace = FALSE]
            /\ pre' = [Snapshot("filter", q) EXCEPT !.clone = r.returned]
    /\ UNCHANGED d

\* a later call on the clone: clone.exclude(codes) or
\* clone.filter(has_any(codes), inplace=True), whose append reaches the list
\* that q holds as well
EditClone ==
    /\ pre.kind \in {"filter", "clone"}
    /\ op.ne < MaxEdits
    /\ \E codes \in CodeLists({1, 2}) :
         \/ /\ pre' = [pre EXCEPT !.kind = "clone",
                                   !.clone = exclude(pre.clone, codes, "x").self]
            /\ q' = q
            /\ op' = [Call("clone.exclude", "x", codes, "none") EXCEPT !.ne = op.ne + 1]
         \/ /\ pre' = [pre EXCEPT !.kind = "clone",
                                   !.clone = filter_call(pre.clone, d, codes, TRUE).self]
            /\ q' = [q EXCEPT !.logical_conditions = Append(@, codes)]
            /\ op' = [Call("clone.filter", "x", codes, "none") EXCEPT !.ne = op.ne + 1]
    /\ UNCHANGED d

CountUsable == Usable /\ CountFreq

InitSwap ==
    InitWith(Datasets({{1}, {2}, {1, 2}}, Singles(YCodes), {1}, NatOrder),
             {"@", "y"}, {"@1"}, {FALSE})

NextSwap == Swap \/ FilterCopy \/ EditClone \/ CountUsable

SpecSwap == InitSwap /\ [][NextSwap]_vars

\* rescale: the mappings from some of the codes 1, 2 and 9 (not a code of
\* the axis) to the values 2 and 3
Scalings == UNION {[K -> {2, 3}] : K \in SUBSET {1, 2, 9}}

\* q.rescale(scaling, drop)
Rescale ==
    /\ op.nr < MaxRescales
    /\ \E scaling \in Scalings, drop \in BOOLEAN :
         /\ q' = rescale(q, scaling, drop)
         /\ op' = [Call("rescale", "x", << >>, "none") EXCEPT
                      !.scaling = scaling, !.drop = drop, !.nr = op.nr + 1]
    /\ pre' = Snapshot("rescale", q)
    /\ UNCHANGED d

InitRescale ==
    InitWith(Datasets({{1}, {2}, {1, 2}}, Singles(YCodes), {1}, NatOrder),
             {"y"}, {"@1"}, {FALSE})

NextRescale == Rescale

SpecRescale == InitRescale /\ [][NextRescale]_vars

\* calc: an operand is a code (9 is on no axis) or constant(2)
Operands == [list : {FALSE}, v : {1, 2, 9}] \cup [list : {TRUE}, v : {2}]

Expressions == [val1 : Operands, op : {"add", "mul"}, val2 : Operands]

\* q.calc({CalcName: expr}, axis, result_only), on a Quantity that holds no
\* calculation yet
Calc ==
    /\ q.calc_x = None /\ q.calc_y = None
    /\ \E expr \in Expressions, axis \in {"x", "y", "z"}, result_only \in BOOLEAN :
         \E r \in {calc(q, expr, axis, result_only)} :
            /\ q' = r.self
            /\ op' = [Call("calc", axis, << >>, r.raised) EXCEPT
                         !.expr = expr, !.result_only = result_only]
    /\ pre' = Snapshot("calc", q)
    /\ UNCHANGED d

InitCalc ==
    InitWith(Datasets({{1}, {1, 2}}, Singles(YCodes), {1}, NatOrder),
             {"y"}, {"@1"}, {FALSE})

NextCalc == Count \/ Calc

SpecCalc == InitCalc /\ [][NextCalc]_vars

\* rebase: the reference is the variable x itself (codes 1, 2, 3 in the
\* data) or the variable y (codes 1, 2); the target's codes are those of the
\* data or recoded ones
Recodings == {[c \in {1, 2, 3} |-> c + 6], [c \in {3} |-> 4], [c \in {1, 2, 3} |-> 4 - c]}

\* q.rescale(scaling), before any aggregation
Recode ==
    /\ op.name = "init"
    /\ \E scaling \in Recodings :
         /\ q' = rescale(q, scaling, FALSE)
         /\ op' = [Call("rescale", "x", << >>, "none") EXCEPT !.scaling = scaling]
    /\ pre' = Snapshot("rescale", q)
    /\ UNCHANGED d

\* the result holds the margins although the flags say it does not (what a
\* failed rebase leaves behind)
MarginsLeftAttached(self) ==
    self.result # NoResult /\ ~self._has_x_margin
       /\ self.current_agg = "freq" /\ Len(self.result) = Len(self.xdef) + 1

\* q.rebase(reference)
Rebase ==
    /\ ~MarginsLeftAttached(q)
    /\ \E reference \in {"x", "y"} :
         \E r \in {rebase(q, d, reference)} :
            /\ q' = r.self
            /\ op' = [Call("rebase", "x", << >>, r.raised) EXCEPT !.var = reference]
    /\ pre' = Snapshot("rebase", q)
    /\ UNCHANGED d

InitRebase ==
    InitWith(Datasets({{1}, {2}, {1, 2}}, Singles(YCodes), {1}, NatOrder),
             {"y", "@"}, {"@1"}, {FALSE})

NextRebase == Recode \/ Count \/ Rebase

SpecRebase == InitRebase /\ [][NextRebase]_vars

\* construction on an x variable with declared missings, then exclude / limit
InitDeclared ==
    /\ d \in Datasets({{1}, {2}, {3}, {1, 2}}, Singles(YCodes), {1}, NatOrder)
    /\ \E hidden \in SUBSET XCodes, excluded \in SUBSET XCodes :
         /\ hidden \cap excluded = {}
         /\ hidden \cup excluded # XCodes
         /\ q = DeclaredQuantity(d, "y", "@1", FALSE, SeqOfSet(hidden), SeqOfSet(excluded))
    /\ op = NoCall
    /\ pre = NoPre

NextDeclared == Exclude \/ Limit

SpecDeclared == InitDeclared /\ [][NextDeclared]_vars

\* what names the roles of the two axes of a Quantity
AxisRoles(self) ==
    [switched |-> self.switched, xdef |-> self.xdef, ydef |-> self.ydef,
     _x_indexers |-> self._x_indexers, _y_indexers |-> self._y_indexers,
     comb_x |-> self.comb_x, comb_y |-> self.comb_y,
     miss_x |-> self.miss_x, miss_y |-> self.miss_y]

\* q.summarize(stat, axis, margin, as_df=False) for axis among axes and margin
\* among margins, on a Quantity with a real y variable
SummarizeOn(axes, margins) ==
    /\ q.xdef # None /\ q.ydef # None
    /\ \E stat \in Stats, axis \in axes, margin \in margins :
         /\ q' = summarize(q, stat, axis, margin)
         /\ op' = [Call("summarize", axis, << >>, "none") EXCEPT
                      !.margin = margin, !.stat = stat]
    /\ pre' = Snapshot("summarize", AxisRoles(q))
    /\ UNCHANGED d

SummarizeX == SummarizeOn({"x"}, BOOLEAN)

SummarizeY == SummarizeOn({"y"}, {TRUE})

\* q.exclude(codes, axis='y')
ExcludeScoped ==
    /\ op.ne < MaxEdits
    /\ \E codes \in CodeLists(YCodes) :
         \E r \in {exclude(q, codes, "y")} :
            /\ q' = r.self
            /\ op' = [Call("exclude", "y", codes, r.raised) EXCEPT !.ne = op.ne + 1]
    /\ pre' = Snapshot("exclude", AxisRoles(q))
    /\ UNCHANGED d

\* q.limit(codes, axis='y')
LimitScoped ==
    /\ op.ne < MaxEdits
    /\ \E codes \in CodeLists(YCodes) :
         \E r \in {limit(q, codes, "y")} :
            /\ q' = r.self
            /\ op' = [Call("limit", "y", codes, r.raised) EXCEPT
                         !.ne = op.ne + 1, !.limited = TRUE]
    /\ pre' = Snapshot("limit", AxisRoles(q))
    /\ UNCHANGED d

\* q.group(groups, axis='y')
GroupScoped == GroupOn({[groups |-> ListGrp(s), axis |-> "y"] : s \in {<<1, 2>>, <<1>>}})

InitScoped ==
    InitWith(Datasets({{1, 2}}, Singles(YCodes), {1}, NatOrder),
             {"y"}, {"@1"}, {FALSE})

NextScoped == ExcludeScoped \/ LimitScoped \/ GroupScoped \/ SummarizeY

SpecScoped == InitScoped /\ [][NextScoped]_vars

\* count() and summarize(axis='x') in any order on a weighted Quantity
InitStat ==
    InitWith(Datasets(Singles({1, 2}), Singles(YCodes), Weights, NatOrder),
             {"y"}, {"w"}, {FALSE})

NextStat == Count \/ SummarizeX

SpecStat == InitStat /\ [][NextStat]_vars

\* the percentiles: up to MaxCases cases that hold one value of 1..MaxCases
\* each, in ascending or in descending order of the values, all with unit
\* weight (as the weight '@1' or as a weight variable of ones), all in column
\* 1 of y or alternating between its two columns
ValueLists ==
    UNION {{s \in [1..n -> 1..MaxCases] :
               \/ \A k \in 1..(n - 1) : s[k] <= s[k + 1]
               \/ \A k \in 1..(n - 1) : s[k] >= s[k + 1]} : n \in 1..MaxCases}

ValueData(s, alternate) ==
    [cases |-> [c \in 1..Len(s) |->
                  [x |-> {s[c]}, y |-> IF alternate THEN {1 + (c % 2)} ELSE {1}, w |-> 1]],
     xcodes |-> [k \in 1..MaxCases |-> k],
     ycodes |-> SeqOfSet(YCodes)]

InitPercentile ==
    /\ \E s \in ValueLists, alternate \in BOOLEAN : d = ValueData(s, alternate)
    /\ \E w \in {"@1", "w"} : q = Quantity(d, "y", w, FALSE)
    /\ op = NoCall
    /\ pre = NoPre

\* q.summarize(stat, margin=margin, as_df=False) for the three percentiles
Percentile ==
    /\ \E stat \in {"lower_q", "median", "upper_q"}, margin \in BOOLEAN :
         /\ q' = summarize(q, stat, "x", margin)
         /\ op' = [Call("summarize", "x", << >>, "none") EXCEPT
                      !.margin = margin, !.stat = stat]
    /\ pre' = NoPre
    /\ UNCHANGED d

NextPercentile == Percentile

SpecPercentile == InitPercentile /\ [][NextPercentile]_vars

\* Quantity constructions on the Cache of one DataSet, each followed by
\* operations on the Quantity built
Construct ==
    /\ d.constructions < MaxConstructions
    /\ \E y \in {"y", "@"}, w \in {"@1", "w"} :
         /\ d' = [get_matrix_cache(d, y, w) EXCEPT !.constructions = d.constructions + 1]
         /\ q' = CachedQuantity(d, y, w, FALSE)
         /\ op' = [NoCall EXCEPT !.name = "construct"]
    /\ pre' = NoPre

\* a DataSet whose Cache is empty
WithCache(data) ==
    [cases |-> data.cases, xcodes |-> data.xcodes, ycodes |-> data.ycodes,
     _cache |-> EmptyCache, computed |-> << >>, constructions |-> 1]

InitCache ==
    /\ \E data \in Datasets({{1}, {1, 2}}, {{1}}, {2}, NatOrder),
          y \in {"y", "@"}, w \in {"@1", "w"} :
         /\ d = get_matrix_cache(WithCache(data), y, w)
         /\ q = CachedQuantity(WithCache(data), y, w, FALSE)
    /\ op = NoCall
    /\ pre = NoPre

\* the operations of the claim on the Quantity built last, one call of each
\* kind: exclude([1]), limit([1, 2]), group([1, 2]), weight(), count(),
\* summarize('mean')
Operate(r, call) ==
    /\ q' = r.self
    /\ op' = [call EXCEPT !.raised = r.raised]
    /\ pre' = NoPre
    /\ UNCHANGED d

ExcludeOne ==
    /\ op.ne < MaxEdits
    /\ Operate(exclude(q, <<1>>, "x"),
               [Call("exclude", "x", <<1>>, "none") EXCEPT !.ne = op.ne + 1])

LimitOne ==
    /\ op.ne < MaxEdits
    /\ Operate(limit(q, <<1, 2>>, "x"),
               [Call("limit", "x", <<1, 2>>, "none") EXCEPT !.ne = op.ne + 1])

GroupOne ==
    /\ op.ng < MaxGroups
    /\ Operate(group(q, d, ListGrp(<<1, 2>>), "x", "None", FALSE),
               [Call("group", "x", << >>, "none") EXCEPT !.ng = op.ng + 1])

WeightOne ==
    /\ op.nw < MaxWeightCalls
    /\ Operate([self |-> weight(q), raised |-> "none"],
               [Call("weight", "None", << >>, "none") EXCEPT !.nw = op.nw + 1])

CountOne ==
    Operate([self |-> count(q, "None", FALSE, TRUE), raised |-> "none"],
            Call("count", "None", << >>, "none"))

SummarizeOne ==
    /\ q.ydef # None
    /\ Operate([self |-> summarize(q, "mean", "x", TRUE), raised |-> "none"],
               Call("summarize", "x", << >>, "none"))

NextCache ==
    Construct \/ ExcludeOne \/ LimitOne \/ GroupOne \/ WeightOne \/ CountOne \/ SummarizeOne

SpecCache == InitCache /\ [][NextCache]_vars

\* the datasets a Test is built on: x of two codes, y of the given codes
TestDatasets(yanswers, weights, ycodes) ==
    {[cases |-> cs, xcodes |-> <<1, 2>>, ycodes |-> ycodes] :
        cs \in {cs \in [1..MaxTestCases -> [x : Singles({1, 2}), y : yanswers, w : weights]] :
                   \A a, b \in 1..MaxTestCases :
                       a < b => CaseKey(cs[a]) <= CaseKey(cs[b])}}

\* the outcomes of the decision rule a run is given: met in every cell but
\* a few, or in a few cells only
MetSets(self, few) ==
    {S \in SUBSET ((1..Len(self.valdiffs)) \X (1..Len(self.ypairs))) :
        \/ Cardinality(S) <= few
        \/ Cardinality(S) >= Len(self.valdiffs) * Len(self.ypairs) - few}

\* what the properties of set_params and run need of the Test before the call
Baseline(self) ==
    [invalid |-> self.invalid, no_pairs |-> self.no_pairs, comparevalue |-> self.comparevalue,
     metric |-> self.metric, is_weighted |-> self.is_weighted,
     values |-> self.values, cbases |-> self.cbases, rbases |-> self.rbases,
     tbase |-> self.tbase, ydef |-> self.ydef, multiindex |-> self.multiindex]

\* test.set_params(level=level, mimic=mimic, use_ebase=use_ebase,
\* cwi_filter=cwi_filter)
SetParamsOn(levels, mimics, use_ebases, cwi_filters) ==
    /\ op.ns < MaxSetParams
    /\ \E level \in levels, mimic \in mimics, use_ebase \in use_ebases,
          cwi_filter \in cwi_filters, place_scalar \in {"none", "TypeError"} :
         \E r \in {set_params(q, level, mimic, use_ebase, cwi_filter, place_scalar)} :
            /\ q' = r.self
            /\ op' = [Call("set_params", "None", << >>, r.raised) EXCEPT
                         !.var = mimic, !.ns = op.ns + 1]
    /\ pre' = Snapshot("set_params", Baseline(q))
    /\ UNCHANGED d

SetParams == SetParamsOn({"mid"}, {"Dim", "askia", "other"}, BOOLEAN, BOOLEAN)

SetParamsDefault == SetParamsOn({"mid"}, {"Dim", "askia"}, {TRUE}, {FALSE})

\* test.run(); pre.clone is the table returned, pre.result the cells whose
\* statistic met the decision rule
RunOn(few) ==
    /\ \E met \in MetSets(q, few) :
         \E r \in {run(q, met)} :
            /\ q' = r.self
            /\ op' = Call("run", "None", << >>, r.returned.raised)
            /\ pre' = [Snapshot("run", Baseline(q)) EXCEPT !.clone = r.returned,
                                                            !.result = met]
    /\ UNCHANGED d

Run == RunOn(1)

RunExtremes == RunOn(0)

\* Tests of either metric on views with one or two y columns
InitTest ==
    /\ d \in TestDatasets({{1}}, {1, 3}, <<1>>)
             \cup TestDatasets({{1}, {2}, {1, 2}}, {1, 3}, <<1, 2>>)
    /\ \E w \in {"@1", "w"}, metric \in {"proportions", "means"}, test_total \in BOOLEAN :
         q = Test(d, w, metric, test_total)
    /\ op = NoCall
    /\ pre = NoPre

NextTest == SetParams \/ RunExtremes

SpecTest == InitTest /\ [][NextTest]_vars

\* unweighted Tests on views with three y columns, set up with the defaults
InitSig ==
    /\ d \in TestDatasets({{2}, {3}, {1, 2}, {1, 3}}, {1}, <<1, 2, 3>>)
    /\ \E metric \in {"proportions", "means"}, test_total \in BOOLEAN :
         q = Test(d, "@1", metric, test_total)
    /\ op = NoCall
    /\ pre = NoPre

NextSig == SetParamsDefault \/ Run

SpecSig == InitSig /\ [][NextSig]_vars

----------------------------------------------------------------------------
(* Properties of count() *)

LastIsFreq(margin) ==
    op.name = "count" /\ op.axis = "None" /\ op.raised = "none" /\ op.margin = margin

\* every case holds exactly one category of x and one of y
SingleCoded ==
    \A c \in CaseIds : Cardinality(d.cases[c].x) = 1 /\ Cardinality(d.cases[c].y) = 1

\* the contingency table of the data, with the case count at its top left
Holding(xc, yc) == Cardinality({c \in CaseIds : xc \in d.cases[c].x /\ yc \in d.cases[c].y})

\* C1: for an unweighted Quantity on single-coded x (n categories) and y (m
\* categories), count(axis=None, margin=True) is an (n+1) x (m+1) array with
\* the case count at [0,0] and, at [i,j], the number of cases holding x
\* category i and y category j
C1_CountIsContingencyTable ==
    (LastIsFreq(TRUE) /\ q.w = "@1" /\ q.y = "y" /\ SingleCoded) =>
        /\ Len(q.result) = Len(d.xcodes) + 1
        /\ \A i \in 1..Len(q.result) : Len(q.result[i]) = Len(d.ycodes) + 1
        /\ q.result[1][1] = Cardinality(CaseIds)
        /\ \A i \in 1..Len(d.xcodes) : \A j \in 1..Len(d.ycodes) :
              q.result[i + 1][j + 1] = Holding(d.xcodes[i], d.ycodes[j])

\* two single-coded cases in the same cell, counted with margins
C1_Witness ==
    /\ LastIsFreq(TRUE) /\ q.w = "@1" /\ q.y = "y" /\ SingleCoded
    /\ Len(q.result) = 4 /\ Len(q.result[1]) = 3
    /\ q.result[3][2] = 2

\* a result without its first row and first column
Inner(r) == [i \in 1..(Len(r) - 1) |-> Tail(r[i + 1])]

CountPairRelation ==
    IF op.margin THEN Inner(q.result) = pre.result ELSE q.result = Inner(pre.result)

\* C3 (as stated): count(margin=True) without its first row and first column
\* equals count(margin=False) on the same Quantity, whichever call comes first
C3_AsStated ==
    (op.name = "count" /\ op.axis = "None" /\ op.raised = "none"
        /\ pre.kind = "count" /\ pre.margin # op.margin) => CountPairRelation

\* C3 (amended): the same for a Quantity whose x and y are both real
\* variables, weighted or not, whichever call comes first
C3_MarginStripped ==
    (op.name = "count" /\ op.axis = "None" /\ op.raised = "none" /\ q.y # "@"
        /\ pre.kind = "count" /\ pre.margin # op.margin) => CountPairRelation

\* a weighted Quantity counted with margins first, then without
C3_Witness ==
    /\ LastIsFreq(FALSE) /\ pre.kind = "count" /\ pre.margin
    /\ q.w = "w" /\ q.y = "y"
    /\ \E c \in 1..Len(q.wv) : q.wv[c] = 2
    /\ Len(q.result) = 3 /\ \E i \in 1..3 : \E j \in 1..2 : q.result[i][j] = 3

\* C4: count() leaves every entry of the matrix as it was before the call
C4_CountRestoresMatrix ==
    [][(op'.name = "count" /\ op'.raised = "none") => q'.matrix = q.matrix]_vars

\* row i of a result without its first entry, and column j without its first
CellsOfRow(r, i) == Tail(r[i])
CellsOfCol(r, j) == [i \in 1..(Len(r) - 1) |-> r[i + 1][j]]

MarginsAreSums(r) ==
    /\ \A j \in 2..Len(r[1]) : r[1][j] = NanSum(CellsOfCol(r, j))
    /\ \A i \in 2..Len(r) : r[i][1] = NanSum(CellsOfRow(r, i))

\* C2 (as stated): in count(axis=None, margin=True) every entry of the margin
\* row is the sum of the category cells of its column and every entry of the
\* margin column the sum of the category cells of its row, for any base_all
\* and after any exclude / limit
C2_AsStated == LastIsFreq(TRUE) => MarginsAreSums(q.result)

AtMostOneCode ==
    \A c \in CaseIds : Cardinality(d.cases[c].x) <= 1 /\ Cardinality(d.cases[c].y) <= 1

\* C2 (amended): the margins are the sums of the category cells when x and y
\* are real single-coded variables, base_all is False and limit was not
\* called (weighted or not, after any exclude)
C2_MarginsAreSums ==
    (LastIsFreq(TRUE) /\ AtMostOneCode /\ ~q.base_all /\ ~op.limited)
        => MarginsAreSums(q.result)

\* a count after an exclude that removed one of two counted cases
C2_Witness ==
    /\ LastIsFreq(TRUE) /\ AtMostOneCode /\ ~q.base_all /\ ~op.limited
    /\ q.miss_x # None /\ op.ne > 0
    /\ q.result[1][1] > 0
    /\ \E c \in CaseIds : d.cases[c].x \cap Range(q.miss_x) # {} /\ d.cases[c].y # {}

----------------------------------------------------------------------------
(* Properties of weight() / unweight() *)

\* C5: with nonzero case weights, weight() then unweight() leaves every
\* entry of the matrix (total columns and zero entries included) as it was
C5_WeightUnweightRoundTrip ==
    (op.name = "unweight" /\ pre.kind = "weight" /\ \A c \in 1..Len(q.wv) : q.wv[c] # 0)
        => q.matrix = pre.q.matrix

----------------------------------------------------------------------------
(* Properties of _switch_axes() *)

\* C6: applying _switch_axes twice restores xdef, ydef, _x_indexers,
\* _y_indexers, comb_x / comb_y, miss_x / miss_y, the switched flag and the
\* matrix to their values before the first application, from any state
C6_SwitchTwiceRestores ==
    (op.name = "switch" /\ pre.kind = "switched back") =>
        /\ q.xdef = pre.q.xdef /\ q.ydef = pre.q.ydef
        /\ q._x_indexers = pre.q._x_indexers /\ q._y_indexers = pre.q._y_indexers
        /\ q.comb_x = pre.q.comb_x /\ q.comb_y = pre.q.comb_y
        /\ q.miss_x = pre.q.miss_x /\ q.miss_y = pre.q.miss_y
        /\ q.switched = pre.q.switched
        /\ q.matrix = pre.q.matrix

\* switched twice after an exclude on x and a group on y
C6_Witness ==
    /\ op.name = "switch" /\ pre.kind = "switched back"
    /\ q.miss_x # None /\ q.miss_y = None
    /\ q.comb_y # None /\ q.comb_x = None

----------------------------------------------------------------------------
(* Properties of group() *)

\* the last call was group(), made on a Quantity not grouped before
LastGroup ==
    /\ op.name = "group" /\ pre.kind = "group"
    /\ pre.q.comb_x = None /\ pre.q.comb_y = None /\ ~pre.q.switched

AxisCodes == IF op.axis = "x" THEN pre.q.xdef ELSE pre.q.ydef

Labels == IF op.axis = "x" THEN q.comb_x ELSE q.comb_y

\* the code lists of the list-type groups of a definition
ListGroupsOf(g) ==
    IF g.form = "list" THEN <<g.val>>
    ELSE IF g.form = "logical" THEN << >>
    ELSE LET lists == SelectSeq(g.val, LAMBDA e : ~e.logical)
         IN [k \in 1..Len(lists) |-> lists[k].val]

HasLogical(g) ==
    g.form = "logical" \/ (g.form = "block" /\ \E k \in 1..Len(g.val) : g.val[k].logical)

Overlap(gs) ==
    \E a, b \in 1..Len(gs) : a # b /\ Range(gs[a]) \cap Range(gs[b]) # {}

RECURSIVE SeqSum(_)
SeqSum(s) == IF s = << >> THEN 0 ELSE Head(s) + SeqSum(Tail(s))

CaseWeight(c) == IF q.w = "@1" THEN 1 ELSE d.cases[c].w

\* the weighted number of cases holding y category yc and a category of S
HoldingAny(S, yc) ==
    SeqSum([c \in CaseIds |->
              IF d.cases[c].x \cap S # {} /\ yc \in d.cases[c].y THEN CaseWeight(c) ELSE 0])

\* the sum of the original cell counts of the categories in codes
SumOfMembers(codes, yc) ==
    SeqSum([k \in 1..Len(codes) |-> HoldingAny({codes[k]}, yc)])

\* count(margin=True) made right after group([{'A': [1, 2]}, {'B': [3]}])
\* on the x axis of a Quantity not grouped before
NetsCounted ==
    /\ LastIsFreq(TRUE) /\ pre.kind = "grouped"
    /\ pre.call.groups = NetsAB /\ pre.call.axis = "x"
    /\ pre.call.expand = "None" /\ ~pre.call.complete
    /\ pre.q.comb_x = None /\ pre.q.comb_y = None

\* C7 (as stated): grouping x into the nets A=[1,2] and B=[3] with
\* expand=None yields an xdef of length 2, and each cell count of a net is
\* the sum of the original cell counts of its member categories
C7_AsStated ==
    NetsCounted =>
        /\ Len(q.xdef) = 2
        /\ \A j \in 1..Len(d.ycodes) :
              /\ q.result[2][j + 1] = SumOfMembers(<<1, 2>>, d.ycodes[j])
              /\ q.result[3][j + 1] = SumOfMembers(<<3>>, d.ycodes[j])

\* C7 (amended): the xdef has length 2 and each cell count of a net is the
\* (weighted) number of cases holding at least one of its member categories,
\* which is the sum of the member counts when no case holds two of them
C7_NetsCountCases ==
    NetsCounted =>
        /\ Len(q.xdef) = 2
        /\ \A j \in 1..Len(d.ycodes) :
              /\ q.result[2][j + 1] = HoldingAny({1, 2}, d.ycodes[j])
              /\ q.result[3][j + 1] = HoldingAny({3}, d.ycodes[j])
              /\ (\A c \in CaseIds : Cardinality(d.cases[c].x) = 1) =>
                    /\ q.result[2][j + 1] = SumOfMembers(<<1, 2>>, d.ycodes[j])
                    /\ q.result[3][j + 1] = SumOfMembers(<<3>>, d.ycodes[j])

\* the nets counted on data with a case holding both members of net A
C7_Witness ==
    /\ NetsCounted
    /\ \E c \in CaseIds : d.cases[c].x = {1, 2} /\ d.cases[c].y = {1}
    /\ \E c \in CaseIds : d.cases[c].x = {3}
    /\ q.result[2][2] = 1

\* C8: for a list-type definition with pairwise disjoint groups,
\* group(groups, complete=True) yields an axis whose labels, without the net
\* labels, are the original codes of the axis, each once, the codes of no
\* group standing in their axis order
C8_CompleteKeepsEveryCode ==
    (LastGroup /\ op.complete /\ ~HasLogical(op.groups)
        /\ ~Overlap(ListGroupsOf(op.groups))) =>
        /\ op.raised = "none"
        /\ LET used == UNION {Range(g) : g \in Range(ListGroupsOf(op.groups))}
               kept == SelectSeq(Labels, LAMBDA l : l < NetName)
           IN /\ Len(kept) = Len(AxisCodes)
              /\ Range(kept) = Range(AxisCodes)
              /\ SelectSeq(kept, LAMBDA l : l \notin used)
                    = SelectSeq(AxisCodes, LAMBDA l : l \notin used)

\* column k of the grouped axis of a Quantity, over all cases
AxisColumn(obj, axis, k) ==
    IF axis = "x"
    THEN [c \in 1..Len(obj.matrix) |-> obj.matrix[c][k + 1]]
    ELSE [c \in 1..Len(obj.matrix) |->
            [i \in 1..Len(obj.matrix[c]) |-> obj.matrix[c][i][k + 1]]]

\* C9: group with expand='before' (resp. 'after') on a code list of any size
\* and order keeps the member columns right before (resp. after) the net
\* column, and the column labelled c holds the data of original category c
C9_ExpandKeepsMembers ==
    (LastGroup /\ op.groups.form = "list" /\ op.expand # "None" /\ ~op.complete) =>
        /\ op.raised = "none"
        /\ Labels = IF op.expand = "before" THEN op.groups.val \o <<NetName>>
                    ELSE <<NetName>> \o op.groups.val
        /\ \A k \in 1..Len(Labels) :
              Labels[k] < NetName =>
                 AxisColumn(q, op.axis, k)
                    = AxisColumn(pre.q, op.axis, IndexOf(AxisCodes, Labels[k]) + 1)

ExpandActive ==
    \/ op.expand # "None"
    \/ op.complete
    \/ /\ op.groups.form = "block"
       /\ \E k \in 1..Len(op.groups.val) :
             op.groups.val[k].has_expand /\ op.groups.val[k].expand # "None"

\* C10: group raises NotImplementedError, before building any net, when a
\* code belongs to two list-type groups while expand or complete is active,
\* whatever other groups the definition holds, and when a logical group
\* comes with complete=True
C10_GroupRaisesNotImplemented ==
    (op.name = "group" /\ pre.kind = "group"
        /\ \/ Overlap(ListGroupsOf(op.groups)) /\ ExpandActive
           \/ HasLogical(op.groups) /\ op.complete) =>
        /\ op.raised = "NotImplementedError"
        /\ q = pre.q

----------------------------------------------------------------------------
(* Properties of exclude() / limit() *)

\* the first exclude() / limit() made on a Quantity, on its x axis
FirstEditOnX(name) ==
    /\ op.name = name /\ op.axis = "x" /\ op.raised = "none" /\ op.ne = 1
    /\ q.comb_x = None /\ q.comb_y = None /\ ~q.switched

\* the matrix rows of the cases holding an excluded category and a category
\* that is not excluded
MixedRows ==
    {r \in 1..Len(q.matrix) :
        /\ d.cases[q.idx_map[r]].x \cap Range(op.codes) # {}
        /\ d.cases[q.idx_map[r]].x \ Range(op.codes) # {}}

\* C11: after exclude(codes, axis='x') a multi-coded case that holds an
\* excluded category and also a category that is not excluded keeps its total
\* indicator and its entries of the categories not excluded (it stays in the
\* base), while its entries of the excluded categories are nulled
C11_ExcludeKeepsMixedCases ==
    FirstEditOnX("exclude") =>
        \A r \in MixedRows :
            /\ q.matrix[r][1][1] # NaN
            /\ \A k \in 1..Len(q.xdef) :
                  IF q.xdef[k] \in Range(op.codes)
                  THEN ~Pos(q.matrix[r][k + 1][1])
                  ELSE q.xdef[k] \in d.cases[q.idx_map[r]].x
                          => Pos(q.matrix[r][k + 1][1])

\* C12: exclude(codes, axis) and limit(codes, axis) raise, leaving the matrix
\* unchanged, when codes holds a code that is not a category of the addressed
\* axis or when axis is a token other than 'x' or 'y'
C12_EditRaisesOnInvalidInput ==
    [][(/\ op'.name \in {"exclude", "limit"}
        /\ \/ op'.axis \notin {"x", "y"}
           \/ Range(op'.codes) \ Range(IF op'.axis = "y" THEN q.ydef ELSE q.xdef) # {})
          => (op'.raised # "none" /\ q'.matrix = q.matrix)]_vars

----------------------------------------------------------------------------
(* Properties of the calls that are refused *)

Untouched ==
    /\ q'.matrix = q.matrix
    /\ q'.xdef = q.xdef /\ q'.ydef = q.ydef
    /\ q'._x_indexers = q._x_indexers /\ q'._y_indexers = q._y_indexers
    /\ q'.comb_x = q.comb_x /\ q'.comb_y = q.comb_y
    /\ q'.miss_x = q.miss_x /\ q'.miss_y = q.miss_y

\* C13: on an array-typed Quantity group(axis='y') and exclude / limit
\* (axis='y') raise NotImplementedError, on a Quantity that is no array and has
\* the total '@' as y group(axis='y') raises ValueError; matrix, xdef, ydef,
\* indexers, comb and miss lists are then as before the call
C13_YAxisCallsRefused ==
    [][/\ (op'.name \in {"group", "exclude", "limit"} /\ op'.axis = "y"
              /\ q.type = "array")
          => (op'.raised = "NotImplementedError" /\ Untouched)
       /\ (op'.name = "group" /\ op'.axis = "y" /\ q.type # "array" /\ q.y = "@")
          => (op'.raised = "ValueError" /\ Untouched)]_vars

\* exclude(axis='y') refused on an array that was grouped on x before
C13_Witness ==
    /\ q.type = "array" /\ op.name = "exclude" /\ op.axis = "y"
    /\ op.raised = "NotImplementedError"
    /\ q.comb_x # None /\ NaN \in Range(q.matrix[1][1])

\* the Quantity that __init__ builds for the variables left by swap(var, axis)
Fresh(var, axis) ==
    Quantity(d, IF axis = "y" THEN var ELSE pre.q.y, pre.q.w, pre.q.base_all)

\* C14: swap(var, axis) completes; afterwards the weight is the one before
\* the call, the swapped axis names the new variable, result, margins,
\* grouping and missing lists are discarded, and matrix, xdef and ydef are
\* those of a Quantity freshly constructed for the new pair of variables.
C14_SwapRebuildsQuantity ==
    (op.name = "swap" /\ op.inplace) =>
        /\ op.raised = "none"
        /\ q.w = pre.q.w
        /\ (IF op.axis = "x" THEN q.x ELSE q.y) = op.var
        /\ q.result = NoResult /\ q.cbase = NoResult /\ q.rbase = NoResult
        /\ q.comb_x = None /\ q.comb_y = None
        /\ q.miss_x = None /\ q.miss_y = None
        /\ q.matrix = Fresh(op.var, op.axis).matrix
        /\ q.xdef = Fresh(op.var, op.axis).xdef
        /\ q.ydef = Fresh(op.var, op.axis).ydef

\* C15: after swap or filter with inplace=False, whether the call returns or
\* raises, every attribute of the original is what it was before the call,
\* and it stays so through later calls on the clone.
C15_OriginalUntouchedByClone ==
    ((pre.kind \in {"swap", "filter"} /\ ~op.inplace) \/ pre.kind = "clone") => q = pre.q

\* the cells of the category at position k of xdef, case by case
CategoryCells(m, k) == [c \in 1..Len(m) |-> m[c][k + 1]]

\* C16: rescale(mapping, drop) replaces every code of xdef that is a key of
\* mapping by its mapped value, each code looked up once, keeps the length
\* and the order of xdef and ignores the keys that are not in xdef; with
\* drop=True exactly the categories whose original code is not a key are
\* excluded (no positive entry left), the others keep their entries.
C16_RescaleRemapsOnce ==
    (op.name = "rescale") =>
        /\ Len(q.xdef) = Len(pre.q.xdef)
        /\ \A k \in 1..Len(q.xdef) :
              q.xdef[k] = IF pre.q.xdef[k] \in DOMAIN op.scaling
                          THEN op.scaling[pre.q.xdef[k]] ELSE pre.q.xdef[k]
        /\ ~op.drop => q.matrix = pre.q.matrix
        /\ op.drop =>
              \A k \in 1..Len(q.xdef) :
                 IF pre.q.xdef[k] \in DOMAIN op.scaling
                 THEN CategoryCells(q.matrix, k) = CategoryCells(pre.q.matrix, k)
                 ELSE \A c \in 1..Len(q.matrix) :
                         \A j \in 1..Len(q.matrix[c][k + 1]) : ~Pos(q.matrix[c][k + 1][j])

\* the result along the axis of the calculation: its rows (axis 'x') or its
\* columns (axis 'y')
Along(res, axis) ==
    IF axis = "x" THEN res
    ELSE IF res = << >> THEN << >>
    ELSE [j \in 1..Len(res[1]) |-> [i \in 1..Len(res) |-> res[i][j]]]

\* the place of a code among the codes of an axis
PlaceOf(codes, v) == CHOOSE k \in 1..Len(codes) : codes[k] = v

OperandOnAxis(o) == o.list \/ o.v \in Range(AxisCodes)

\* the cell j of an operand in the result before the call
OperandCell(o, j) ==
    IF o.list THEN o.v
    ELSE Along(pre.q.result, op.axis)
            [PlaceOf(AxisCodes, o.v) + (IF pre.q._has_x_margin THEN 1 ELSE 0)][j]

\* the derived row or column: op(operand1, operand2) cell by cell
Derived ==
    [j \in 1..Len(Along(pre.q.result, op.axis)[1]) |->
        IF op.expr.op = "add"
        THEN OperandCell(op.expr.val1, j) + OperandCell(op.expr.val2, j)
        ELSE OperandCell(op.expr.val1, j) * OperandCell(op.expr.val2, j)]

\* C17: after calc on a frequency result, for axis 'x' and axis 'y' alike:
\* with result_only=False the result has exactly one more row (column) that
\* holds op(operand1, operand2) cell by cell, the earlier cells are unchanged
\* and the label is appended to the labels of the axis; with result_only=True
\* the result holds only the derived row (column), preceded by the margin
\* row (column) when the margins are present.
C17_CalcAppendsDerivedVector ==
    (/\ op.name = "calc" /\ op.axis \in {"x", "y"}
     /\ pre.q.current_agg = "freq"
     /\ OperandOnAxis(op.expr.val1) /\ OperandOnAxis(op.expr.val2)
     /\ ~(op.expr.val1.list /\ op.expr.val2.list))
    => /\ op.raised = "none"
       /\ IF op.result_only
          THEN Along(q.result, op.axis) =
                  (IF pre.q._has_x_margin
                   THEN <<Along(pre.q.result, op.axis)[1]>> ELSE << >>) \o <<Derived>>
          ELSE /\ Along(q.result, op.axis) = Append(Along(pre.q.result, op.axis), Derived)
               /\ (IF op.axis = "x" THEN q.calc_x ELSE q.calc_y)
                     = Append(AxisCodes, CalcName)

\* result, margins and calc labels are those before the call
CalcLeftAlone ==
    /\ q.result = pre.q.result
    /\ q.cbase = pre.q.cbase /\ q.rbase = pre.q.rbase
    /\ q._has_x_margin = pre.q._has_x_margin /\ q._has_y_margin = pre.q._has_y_margin
    /\ q.calc_x = pre.q.calc_x /\ q.calc_y = pre.q.calc_y
    /\ q.current_agg = pre.q.current_agg

\* C18: calc raises before it changes result, margins or calc labels:
\* ValueError when there is no aggregation result, NotImplementedError when
\* the current aggregation is cbase, rbase, summary, x_sum or y_sum, and
\* ValueError when the axis is neither 'x' nor 'y' (tested in this order).
C18_CalcRefusesEarly ==
    (op.name = "calc") =>
        /\ (pre.q.result = NoResult) => (op.raised = "ValueError" /\ CalcLeftAlone)
        /\ (pre.q.result # NoResult
              /\ pre.q.current_agg \in {"cbase", "rbase", "summary", "x_sum", "y_sum"})
            => (op.raised = "NotImplementedError" /\ CalcLeftAlone)
        /\ (pre.q.result # NoResult
              /\ pre.q.current_agg \notin {"cbase", "rbase", "summary", "x_sum", "y_sum"}
              /\ op.axis \notin {"x", "y"})
            => (op.raised = "ValueError" /\ CalcLeftAlone)

C18_Witness ==
    /\ op.name = "calc" /\ op.raised = "NotImplementedError"
    /\ pre.q.current_agg = "y_sum" /\ op.axis = "z"
    /\ pre.q.result # NoResult

\* the codes of the axis of the reference variable
ReferenceCodes == IF op.var = "y" THEN d.ycodes ELSE d.xcodes

\* C19: rebase raises IndexError whenever the axis of the reference variable
\* shares no code with the axis of the target, whatever the lengths of the
\* two axes.
C19_RebaseRefusesDisjointAxes ==
    (/\ op.name = "rebase"
     /\ pre.q.current_agg = "freq" /\ pre.q.result # NoResult
     /\ Range(ReferenceCodes) \cap Range(pre.q.xdef) = {})
    => op.raised = "IndexError"

\* the counts of the Quantity constructed for the reference variable (here
\* the variable x itself) and the target's y
ReferenceCounts ==
    count(Quantity(d, pre.q.y, pre.q.w, pre.q.base_all), "None", FALSE, TRUE).result

\* the target's counts with the margins, before the call
TargetCounts ==
    count(pre.q, "None", FALSE, TRUE).result

Shift(flag) == IF flag THEN 1 ELSE 0

\* the category columns of the target and their place in the counts with margins
YCount == IF pre.q.y = "@" THEN 1 ELSE Len(pre.q.ydef)

TargetCol(j) == IF pre.q.y = "@" THEN j ELSE j + 1

\* C20: when the axis of the reference variable is the target's xdef, a
\* reordering of it or a superset of it, rebase succeeds and every row of a
\* code c is 100 times the target's counts of c divided by the reference's
\* counts of c, the margin row being divided by the reference's margin row.
C20_RebaseGivesPercentages ==
    (/\ op.name = "rebase" /\ op.var = "x"
     /\ pre.q.current_agg = "freq" /\ pre.q.result # NoResult
     /\ Range(pre.q.xdef) \subseteq Range(ReferenceCodes))
    => /\ op.raised = "none"
       /\ \A k \in 1..Len(pre.q.xdef) :
             \A j \in 1..YCount :
                q.result[k + Shift(q._has_x_margin)][j + Shift(q._has_y_margin)]
                   = <<100 * TargetCounts[k + 1][TargetCol(j)],
                       ReferenceCounts[PlaceOf(d.xcodes, pre.q.xdef[k]) + 1][TargetCol(j)]>>
       /\ q._has_x_margin =>
             \A j \in 1..Len(q.result[1]) :
                q.result[1][j] = <<100 * TargetCounts[1][j], ReferenceCounts[1][j]>>

\* C30: when calc raises IndexError because the expression names a row or
\* column that is not on the axis, the Quantity is unchanged: result (shape
\* and margins included), cbase, rbase, calc_x, calc_y and current_agg have
\* the values they had before the call.
C30_CalcIndexErrorLeavesQuantity ==
    (op.name = "calc" /\ op.raised = "IndexError") => CalcLeftAlone

\* C29: exclude(codes, axis='y') on a simple Quantity with a real y variable
\* records codes as miss_y and leaves miss_x as it was; exclude(codes,
\* axis='x') records them as miss_x and leaves miss_y as it was.  (Stated for
\* the first edit of a Quantity, whose miss lists were both None.)
C29_ExcludeRecordsOwnAxis ==
    (/\ op.name = "exclude" /\ op.raised = "none" /\ op.ne = 1
     /\ q.type = "simple" /\ q.y # "@")
    => IF op.axis = "y"
       THEN q.miss_y = op.codes /\ q.miss_x = None
       ELSE q.miss_x = op.codes /\ q.miss_y = None

\* the offsets 1..Len(codes), ordered by ascending code
CodeSortedOffsets(indexers, codes) ==
    /\ Len(indexers) = Len(codes)
    /\ {indexers[k] : k \in 1..Len(indexers)} = 1..Len(codes)
    /\ \A k, l \in 1..Len(indexers) : k < l => codes[indexers[k]] <= codes[indexers[l]]

\* C26: after construction (hidden / excluded categories of the meta removed,
\* wherever they stand on the axis) and after every sequence of exclude and
\* limit on either axis of a simple Quantity, the matrix has len(xdef)+1
\* entries on the x axis and len(ydef)+1 on the y axis, and _x_indexers and
\* _y_indexers hold exactly the offsets 1..len(xdef) and 1..len(ydef),
\* ordered by ascending category code.
C26_ShapeAndIndexersFollowAxes ==
    /\ \A c \in 1..Len(q.matrix) :
          /\ Len(q.matrix[c]) = Len(q.xdef) + 1
          /\ \A i \in 1..Len(q.matrix[c]) : Len(q.matrix[c][i]) = Len(q.ydef) + 1
    /\ CodeSortedOffsets(q._x_indexers, q.xdef)
    /\ CodeSortedOffsets(q._y_indexers, q.ydef)

\* C27: when exclude, limit or group with axis='y', or summarize of any
\* statistic with axis='y', returns, the switched flag has the value it had on
\* entry and the roles of the axes are not left exchanged: xdef, _x_indexers
\* and comb_x are as on entry, the matrix has len(xdef)+1 entries on its x
\* axis, and the miss lists have not changed places.
C27_AxisSwitchIsScoped ==
    (/\ op.name \in {"exclude", "limit", "group", "summarize"}
     /\ op.axis = "y" /\ op.raised = "none")
    => /\ q.switched = pre.q.switched
       /\ q.xdef = pre.q.xdef /\ q._x_indexers = pre.q._x_indexers
       /\ q.comb_x = pre.q.comb_x
       /\ \A c \in 1..Len(q.matrix) : Len(q.matrix[c]) = Len(q.xdef) + 1
       /\ ~(/\ pre.q.miss_x # pre.q.miss_y
            /\ q.miss_x = pre.q.miss_y /\ q.miss_y = pre.q.miss_x)

\* the Quantity as __init__ builds it on the data
Constructed == Quantity(d, q.y, q.w, q.base_all)

\* C28: on a weighted Quantity the result of count() (cells and margins) and
\* of summarize('mean') does not depend on the aggregation calls made before
\* on the same instance: it is the result the same call gives on a freshly
\* constructed instance.
C28_AggregationFreeOfHistory ==
    (q.w # "@1" /\ op.raised = "none")
    => /\ op.name = "count"
            => q.result = count(Constructed, op.axis, op.raw_sum, op.margin).result
       /\ (op.name = "summarize" /\ op.stat = "mean")
            => q.result = summarize(Constructed, "mean", op.axis, op.margin).result

\* the cases of the data that count for column j of a statistic (0: the
\* margin, all cases), and the value a case holds
ColumnCases(j) == {c \in DOMAIN d.cases : j = 0 \/ q.ydef[j] \in d.cases[c].y}

ValueOf(c) == CHOOSE v \in d.cases[c].x : TRUE

\* the r-th order statistic of the values of the cases S
OrderStat(S, r) ==
    CHOOSE v \in {ValueOf(c) : c \in S} :
        /\ Cardinality({c \in S : ValueOf(c) < v}) < r
        /\ r <= Cardinality({c \in S : ValueOf(c) <= v})

\* four times the percentile perc4 / 4 of the values of S by definition 6 of
\* Hyndman and Fan: with k = (n + 1) * perc the order statistic at floor(k)
\* plus the fraction of k of the step to the next one, the smallest value for
\* k < 1 and the largest for k >= n
HyndmanFan6(S, perc4) ==
    LET n == Cardinality(S)
        k4 == (n + 1) * perc4
    IN IF k4 < 4 THEN 4 * OrderStat(S, 1)
       ELSE IF k4 >= 4 * n THEN 4 * OrderStat(S, n)
       ELSE 4 * OrderStat(S, k4 \div 4)
              + (k4 % 4) * (OrderStat(S, (k4 \div 4) + 1) - OrderStat(S, k4 \div 4))

Quarters(stat) == IF stat = "lower_q" THEN 1 ELSE IF stat = "median" THEN 2 ELSE 3

\* the entry of the result row for column j of y (0: the margin)
PercentileCell(j) == q.result[1][IF op.margin THEN j + 1 ELSE j]

\* C21: for cases of unit weight, summarize of the percentile p in {0.25,
\* 0.5, 0.75} gives for the margin and for every column of y that holds a
\* case the value of definition 6 of Hyndman and Fan (results are held as
\* four times the value); the median of the values 1, 2, 3, 4, 5 is 3.
C21_PercentileIsHyndmanFan6 ==
    (op.name = "summarize" /\ op.stat \in {"lower_q", "median", "upper_q"})
    => /\ \A j \in (IF op.margin THEN 0 ELSE 1)..Len(q.ydef) :
            ColumnCases(j) # {} => PercentileCell(j) = HyndmanFan6(ColumnCases(j), Quarters(op.stat))
       /\ (/\ op.stat = "median" /\ op.margin
           /\ Len(d.cases) = 5 /\ {ValueOf(c) : c \in DOMAIN d.cases} = 1..5)
          => PercentileCell(0) = 4 * 3

\* the lower quartile of the values 1, 2, 3, 4, 5 was taken: k = 1.5, half
\* way between the first and the second value
C21_Witness ==
    /\ op.name = "summarize" /\ op.stat = "lower_q" /\ op.margin
    /\ Len(d.cases) = 5 /\ {ValueOf(c) : c \in DOMAIN d.cases} = 1..5
    /\ PercentileCell(0) = 6

\* one step leaves every stored entry of the Cache as it is, has computed
\* no object a second time, and a Quantity constructed in the step is the
\* one its variables give
CacheKept ==
    /\ \A coll \in {"matrices", "weight_vectors"} :
          \A key \in DOMAIN d._cache[coll] :
             /\ key \in DOMAIN d'._cache[coll]
             /\ d'._cache[coll][key] = d._cache[coll][key]
    /\ \A i, j \in 1..Len(d'.computed) : d'.computed[i] = d'.computed[j] => i = j
    /\ SubSeq(d'.computed, 1, Len(d.computed)) = d.computed
    /\ op'.name = "construct"
          => q' = Quantity([cases |-> d.cases, xcodes |-> d.xcodes, ycodes |-> d.ycodes],
                           q'.y, q'.w, q'.base_all)

\* C25: across the Quantity constructions that share one Cache the dummy
\* encoding of a variable and each weight vector are computed at most once,
\* later constructions read the stored entry, and no operation on a Quantity
\* (exclude, limit, group, weight, count, summarize) changes a stored entry.
C25_CacheEntriesComputedOnce == [][CacheKept]_vars

\* a second construction found everything it needed in the Cache
C25_Witness ==
    /\ op.name = "construct" /\ d.constructions = 2
    /\ Len(d.computed) = 2 /\ q.w = "@1" /\ q.y = "@"

----------------------------------------------------------------------------
(* Properties of Test.set_params and Test.run *)

\* C22: for either metric and any test_total, run() after a completed
\* set_params on an aggregation with one y column returns without raising a
\* table of the shape of the input view whose cells are all NaN and whose
\* row and column index are those of the view
C22_SingleColumnRunIsAllNaN ==
    (/\ op.name = "run"
     /\ Len(pre.q.ydef) = 1 /\ pre.q.invalid = "True" /\ pre.q.comparevalue # 0)
    => /\ op.raised = "none"
       /\ pre.clone.index = pre.q.multiindex[1]
       /\ pre.clone.columns = pre.q.multiindex[2]
       /\ Len(pre.clone.values) = Len(pre.q.multiindex[1])
       /\ \A i \in 1..Len(pre.clone.values) :
             /\ Len(pre.clone.values[i]) = Len(pre.q.multiindex[2])
             /\ \A j \in 1..Len(pre.clone.values[i]) : pre.clone.values[i][j] = <<NaN>>

\* the count expected in column j of the tested counts when rows and columns
\* are independent is below 5 (or not a number)
ExpectedBelowFive(b, j) ==
    \/ b.rbases[1][1] \in {0, NaN} \/ b.cbases[1][j] \in {0, NaN} \/ b.tbase \in {0, NaN}
    \/ b.rbases[1][1] * b.cbases[1][j] < 5 * b.tbase

\* C24: a set_params with mimic='askia' that sets the test up leaves it in
\* the unpooled profile whatever the other arguments are: the tested counts
\* are filtered by their counts-when-independent, ebases are the plain column
\* bases, overlap is zero and test_total is False
C24_AskiaIsUnpooledProfile ==
    (/\ op.name = "set_params" /\ op.var = "askia" /\ op.raised = "none"
     /\ q.invalid = "False")
    => /\ q.parameters = [testtype |-> "unpooled", use_ebase |-> "False",
                          ovlp_correc |-> "False", cwi_filter |-> "True",
                          base_flags |-> "None"]
       /\ q.test_total = FALSE
       /\ \A i \in 1..Len(q.overlap) : \A k \in 1..Len(q.overlap[i]) : q.overlap[i][k][1] = 0
       /\ q.ebases = <<[j \in 1..Len(q.cbases[1]) |->
                          IF q.cbases[1][j] = NaN THEN <<0, 0>> ELSE <<q.cbases[1][j], 1>>]>>
       /\ q.metric = "proportions" =>
             \A i \in 1..Len(q.values) : \A j \in 1..Len(q.values[i]) :
                 ExpectedBelowFive(pre.q, j) => q.values[i][j] = NaN

\* the position among the tested columns of the column j of ydef (the total
\* comes first when it is tested)
TestedColumn(self, j) == j + (Len(self.values[1]) - Len(self.ydef))

\* the tested value of row i and column j of ydef: the proportion or the
\* mean, as a fraction
TestedValue(self, i, j) ==
    IF self.metric = "means" THEN self.values[i][TestedColumn(self, j)]
    ELSE IF self.values[i][TestedColumn(self, j)] = NaN
            \/ self.cbases[1][TestedColumn(self, j)] \in {0, NaN}
    THEN <<0, 0>>
    ELSE <<self.values[i][TestedColumn(self, j)], self.cbases[1][TestedColumn(self, j)]>>

\* p < r for two fractions, false when one is not a number
Smaller(p, r) == p[2] # 0 /\ r[2] # 0 /\ p[1] * r[2] < r[1] * p[2]

\* the cell of row i and column a of the returned table lists column b
Lists(i, a, b) == q.ydef[b] \in Range(pre.clone.values[i][a])

\* the place of the pair of the columns a < b of ydef among ypairs
PairIndex(a, b) ==
    CHOOSE k \in 1..Len(q.ypairs) : q.ypairs[k] = <<q.ydef[a], q.ydef[b]>>

\* the decision rule was met for row i and the columns a < b
RuleMet(i, a, b) == <<i, PairIndex(a, b)>> \in pre.result

\* C23: in the table run() returns, for every row and every pair of y
\* columns a, b: the code of the column with the smaller value is listed in
\* the cell of the column with the larger value, and only there, when the
\* pair is significant; no cell lists its own column, a and b never list
\* each other, and a pair with equal values or an unmet decision rule adds
\* no code to either cell
C23_SmallerListedInLarger ==
    (op.name = "run" /\ op.raised = "none" /\ q.invalid = "False")
    => \A i \in 1..Len(q.xdef) : \A a, b \in 1..Len(q.ydef) :
          /\ ~Lists(i, a, a)
          /\ ~(Lists(i, a, b) /\ Lists(i, b, a))
          /\ a < b =>
               /\ Lists(i, a, b) <=> (/\ RuleMet(i, a, b)
                                      /\ Smaller(TestedValue(q, i, b), TestedValue(q, i, a)))
               /\ Lists(i, b, a) <=> (/\ RuleMet(i, a, b)
                                      /\ Smaller(TestedValue(q, i, a), TestedValue(q, i, b)))

\* a run where, in one row, column 1 lists column 2 and column 3 lists
\* column 1 while the pair of the columns 2 and 3 adds nothing
C23_Witness ==
    /\ op.name = "run" /\ op.raised = "none" /\ q.invalid = "False"
    /\ Len(q.ydef) = 3
    /\ \E i \in 1..Len(q.xdef) :
          /\ Lists(i, 1, 2) /\ ~Lists(i, 2, 1)
          /\ Lists(i, 3, 1) /\ ~Lists(i, 1, 3)
          /\ ~Lists(i, 2, 3) /\ ~Lists(i, 3, 2)

====
